---------------------------- MODULE Spec2Model ----------------------------
(***************************************************************************)
(* Job lifecycle of the image processing service:                          *)
(*   - the API server's transformImage and deleteImage handlers            *)
(*     (controllers/imageController.js),                                   *)
(*   - the broker queue and the consumer loop (config/rabbitmq.js),        *)
(*   - the worker's processJob (workers/imageWorker.js),                   *)
(*   - the executor applyTransformations (services/imageProcessor.js),     *)
(*   - the synchronous transformImageSync handler and its own pipeline,    *)
(*   - each process's own in-memory result cache (config/cache.js) and     *)
(*     its key function generateCacheKey,                                  *)
(*   - connectRabbitMQ and publishToQueue of each process, and startServer *)
(*     of the API server (app.js),                                         *)
(*   - the middleware before the handlers: authenticate                    *)
(*     (middleware/auth.js) and validateTransformation                     *)
(*     (middleware/validators.js), and getTransformationStatus.            *)
(* Every await of a handler is a separate step: the database, the file     *)
(* system and the broker are shared by the API server and the workers,     *)
(* which are different processes.                                          *)
(***************************************************************************)
EXTENDS Integers, Sequences, FiniteSets, TLC

\* ------------------------------------------------------------------ bounds
\* Number of job ids (uuidv4 values) the API server may issue.
MaxJobs == 2
\* Number of SIGINT/SIGTERM signals delivered to workers.
MaxShutdowns == 1
\* Number of fields of a spec the pure functions are applied to.
MaxFields == 3
\* Number of output paths the cache operations store.
MaxPaths == 2

\* ------------------------------------------------------- program constants
\* maxKeys of the NodeCache instance.
maxKeys == 1000
\* Seconds connectRabbitMQ waits before it tries again.
RetrySeconds == 5

\* ------------------------------------------------------------------ domain
ImageIds == {"img1"}
Workers == {"w1", "w2"}
\* The processes that call connectRabbitMQ at their start: the API server
\* and the workers.
Processes == {"api"} \cup Workers
\* The users of the service; OwnerId uploaded the images.
Users == {"u1", "u2"}
OwnerId == "u1"
Requests == {"r1", "r2"}
SyncRequests == {"s1", "s2"}
\* The requests the API server serves at a time: transformImage,
\* transformImageSync, one deleteImage and one getTransformationStatus.
Handlers == Requests \cup SyncRequests \cup {"delete", "status"}
JobIds == 1..MaxJobs

Null == "null"

\* ------------------------------------------------------- JavaScript values
Undefined == [type |-> "undefined"]
JsNull == [type |-> "null"]
Num(n) == [type |-> "number", n |-> n]
Bool(b) == [type |-> "boolean", b |-> b]
Str(s) == [type |-> "string", s |-> s]

\* An object: the names of its own properties in insertion order, and the
\* value of each.
Obj(keys, val) == [type |-> "object", keys |-> keys, val |-> val]

\* An object literal { k1: v1, ..., kn: vn }.
ObjectOf(entries) ==
  Obj([i \in 1..Len(entries) |-> entries[i].k],
      [k \in {entries[i].k : i \in 1..Len(entries)} |->
         entries[CHOOSE i \in 1..Len(entries) : entries[i].k = k].v])

\* ToBoolean(v), as in if (v), v && w, v || w.
Truthy(v) ==
  CASE v.type = "undefined" -> FALSE
    [] v.type = "null" -> FALSE
    [] v.type = "number" -> v.n # 0
    [] v.type = "boolean" -> v.b
    [] v.type = "string" -> v.s # ""
    [] OTHER -> TRUE

\* v || w
Or(v, w) == IF Truthy(v) THEN v ELSE w

\* o.k, and the binding k of const { k } = o.
Get(o, k) == IF o.type = "object" /\ k \in DOMAIN o.val THEN o.val[k] ELSE Undefined

\* Object.keys(o)
ObjectKeys(o) == o.keys

\* Property names of transformation specs in ascending order of their UTF-16
\* code units, the order Array.prototype.sort() puts them in.
SortedNames ==
  << "blur", "brightness", "compress", "crop", "filters", "fit", "flip",
     "flop", "format", "gamma", "grayscale", "height", "hue", "negate",
     "normalize", "position", "quality", "resize", "rotate", "saturation",
     "sepia", "sharpen", "text", "watermark", "width", "withoutEnlargement",
     "x", "y" >>

\* keys.sort()
Sort(keys) ==
  SelectSeq(SortedNames, LAMBDA n : \E i \in 1..Len(keys) : keys[i] = n)

\* Dimensions of every uploaded source image, and the extension of its file.
SrcDims == [width |-> 1000, height |-> 800]
SourceExt == "jpg"

\* { resize: { width: 250, height: 200 } }: a spec the pipeline can execute.
ResizeSpec ==
  ObjectOf(<<[k |-> "resize",
              v |-> ObjectOf(<<[k |-> "width", v |-> Num(250)],
                               [k |-> "height", v |-> Num(200)]>>)]>>)

\* { crop: { x: 0, y: 0, width: 2000, height: 400 } }: the crop rectangle
\* exceeds the image.
CropSpec ==
  ObjectOf(<<[k |-> "crop",
              v |-> ObjectOf(<<[k |-> "x", v |-> Num(0)],
                               [k |-> "y", v |-> Num(0)],
                               [k |-> "width", v |-> Num(2000)],
                               [k |-> "height", v |-> Num(400)]>>)]>>)

\* The transformation specs the asynchronous requests are drawn from.
TransformSpecs == {ResizeSpec, CropSpec}

\* { crop: { x: 0, y: 0 } }: a crop without a size.
CropNoSizeSpec ==
  ObjectOf(<<[k |-> "crop",
              v |-> ObjectOf(<<[k |-> "x", v |-> Num(0)],
                               [k |-> "y", v |-> Num(0)]>>)]>>)

\* { crop: { x: -1, y: 0, width: 500, height: 400 } }: a crop that starts
\* left of the image.
CropNegativeSpec ==
  ObjectOf(<<[k |-> "crop",
              v |-> ObjectOf(<<[k |-> "x", v |-> Num(0 - 1)],
                               [k |-> "y", v |-> Num(0)],
                               [k |-> "width", v |-> Num(500)],
                               [k |-> "height", v |-> Num(400)]>>)]>>)

\* { resize: { width: 0 } } and { quality: 101 }: numbers out of range.
ResizeZeroSpec ==
  ObjectOf(<<[k |-> "resize", v |-> ObjectOf(<<[k |-> "width", v |-> Num(0)]>>)]>>)
QualityHighSpec == ObjectOf(<<[k |-> "quality", v |-> Num(101)]>>)

\* { resize: { width: 300, height: 200 } }: ResizeSpec but for resize.width.
ResizeWideSpec ==
  ObjectOf(<<[k |-> "resize",
              v |-> ObjectOf(<<[k |-> "width", v |-> Num(300)],
                               [k |-> "height", v |-> Num(200)]>>)]>>)

\* Specs of which two differ in a nested field only.
NestedSpecs == TransformSpecs \cup {ResizeWideSpec}

\* The request bodies, well-formed or not, a client may send.
RequestBodies ==
  TransformSpecs \cup {CropNoSizeSpec, CropNegativeSpec, ResizeZeroSpec, QualityHighSpec}

\* ------------------------------------------------------------------- state
VARIABLES
  images,      \* the images table: id -> row; a destroyed row leaves the domain
  files,       \* ids of the images whose original file is on disk
  queue,       \* the broker's ready messages, head first
  unacked,     \* worker -> <<the delivered, unsettled message>>, or <<>>
  wpc,         \* worker -> position in the consumer callback / processJob
  wloc,        \* worker -> locals of processJob (result, image, error)
  cache,       \* worker -> its imageCache: key -> output path
  cacheOther,  \* worker -> number of live keys of its cache from earlier jobs
  rpc,         \* request -> position in transformImage / last response
  rloc,        \* request -> locals of transformImage (id, spec, image, jobId)
  dpc,         \* position of the deleteImage handler
  dloc,        \* id the deleteImage handler works on
  nextJobId,   \* number of job ids issued so far, plus one
  nextOut,     \* number of output files written so far, plus one
  shutdowns,   \* number of signals delivered so far
  jobStatus,   \* job id -> the processingStatus the job wrote last, Null if none
  apiCache,    \* the imageCache of the API server: key -> output path
  apiCacheOther, \* number of live keys of that cache beside those of apiCache
  apiExpired,  \* keys of apiCache whose TTL has run out, not removed yet
  spc,         \* sync request -> position in transformImageSync / response
  sloc,        \* sync request -> locals of transformImageSync
  arg,         \* the arguments of the function under test
  ret,         \* what the function under test returned
  broker,      \* the RabbitMQ broker: reachable or not, its durable queue
  conn,        \* process -> position in connectRabbitMQ, connection, channel
  server,      \* position of startServer of the API server
  caller       \* handler -> req.userId of the request it serves

vars == <<images, files, queue, unacked, wpc, wloc, cache, cacheOther,
          rpc, rloc, dpc, dloc, nextJobId, nextOut, shutdowns, jobStatus,
          apiCache, apiCacheOther, apiExpired, spc, sloc, arg, ret,
          broker, conn, server, caller>>

dbVars == <<images, files>>
workerVars == <<unacked, wpc, wloc, cache, cacheOther, nextOut, shutdowns>>
requestVars == <<rpc, rloc, nextJobId>>
deleteVars == <<dpc, dloc>>
apiCacheVars == <<apiCache, apiCacheOther, apiExpired>>
syncVars == <<spc, sloc>>
callVars == <<arg, ret>>
connVars == <<broker, conn, server>>

\* --------------------------------------------------------------- Image row
\* Defaults of the model's columns.
NewImage ==
  [userId |-> OwnerId, isProcessing |-> FALSE, processingStatus |-> "completed",
   processingError |-> Null, transformations |-> <<>>]

\* Image.update / instance.update: UPDATE ... WHERE id, writing the named
\* columns only; a destroyed row matches nothing.
UpdateRow(db, id, fields) ==
  IF id \in DOMAIN db
    THEN [db EXCEPT ![id] = [c \in DOMAIN @ |->
                               IF c \in DOMAIN fields THEN fields[c] ELSE @[c]]]
    ELSE db

\* ---------------------------------------------------------------- executor
\* A call of a sharp method: the stage of the pipeline that makes it, the
\* method and its arguments.  sharp treats null and undefined arguments alike.
Call(stage, op, args) == [stage |-> stage, op |-> op, args |-> args]

\* A call without arguments.
NoArgs == [none |-> TRUE]

\* if (cond) sharpInstance = sharpInstance.method(...)
When(cond, calls) == IF cond THEN calls ELSE <<>>

\* The filters applied in the order the spec names them.
applyTransformations_filters_asGiven(filters) ==
  LET given == SelectSeq(ObjectKeys(filters), LAMBDA k : Truthy(Get(filters, k)))
  IN [i \in 1..Len(given) |-> Call(given[i], given[i], NoArgs)]

\* The filters block of applyTransformations.
applyTransformations_filters(filters) ==
  When(Truthy(Get(filters, "grayscale")), <<Call("grayscale", "grayscale", NoArgs)>>)
  \o When(Truthy(Get(filters, "sepia")),
          <<Call("sepia", "modulate", [saturation |-> Str("0.5")]),
            Call("sepia", "tint", [r |-> 112, g |-> 66, b |-> 20])>>)
  \o When(Truthy(Get(filters, "blur")),
          <<Call("blur", "blur",
                 [sigma |-> IF Get(filters, "blur").type = "number"
                              THEN Get(filters, "blur") ELSE Num(3)])>>)
  \o When(Truthy(Get(filters, "sharpen")), <<Call("sharpen", "sharpen", NoArgs)>>)
  \o When(Truthy(Get(filters, "negate")), <<Call("negate", "negate", NoArgs)>>)
  \o When(Truthy(Get(filters, "normalize")), <<Call("normalize", "normalize", NoArgs)>>)
  \o When(Truthy(Get(filters, "gamma")),
          <<Call("gamma", "gamma", [gamma |-> Get(filters, "gamma")])>>)
  \o When(Truthy(Get(filters, "brightness")),
          <<Call("brightness", "modulate", [brightness |-> Get(filters, "brightness")])>>)
  \o When(Truthy(Get(filters, "saturation")),
          <<Call("saturation", "modulate", [saturation |-> Get(filters, "saturation")])>>)
  \o When(Truthy(Get(filters, "hue")),
          <<Call("hue", "modulate", [hue |-> Get(filters, "hue")])>>)

\* The encoder call of applyTransformations: outputQuality = quality ||
\* (compress ? 60 : 80), and the switch on the output format.
applyTransformations_encode(format, quality, compress) ==
  LET outputFormat == Or(format, Or(Str(SourceExt), Str("jpeg"))).s
      outputQuality == Or(quality, IF Truthy(compress) THEN Num(60) ELSE Num(80))
  IN CASE outputFormat \in {"jpeg", "jpg"} ->
            Call("encode", "jpeg", [quality |-> outputQuality, mozjpeg |-> Bool(TRUE)])
       [] outputFormat = "png" ->
            Call("encode", "png",
                 [quality |-> outputQuality,
                  compressionLevel |-> IF Truthy(compress) THEN Num(9) ELSE Num(6)])
       [] outputFormat = "webp" -> Call("encode", "webp", [quality |-> outputQuality])
       [] outputFormat = "gif" -> Call("encode", "gif", NoArgs)
       [] outputFormat \in {"tiff", "tif"} ->
            Call("encode", "tiff", [quality |-> outputQuality])
       [] outputFormat = "avif" -> Call("encode", "avif", [quality |-> outputQuality])
       [] OTHER -> Call("encode", "toFormat", [format |-> Str(outputFormat)])

\* The sharp calls applyTransformations makes for a spec, in the order it
\* makes them, up to toFile.
applyTransformations_calls(t) ==
  LET resize == Get(t, "resize")
      crop == Get(t, "crop")
      rotate == Get(t, "rotate")
      filters == Get(t, "filters")
      watermark == Get(t, "watermark")
      resizeOptions ==
        [fit |-> Or(Get(resize, "fit"), Str("cover")),
         position |-> Or(Get(resize, "position"), Str("center")),
         withoutEnlargement |-> Or(Get(resize, "withoutEnlargement"), Bool(FALSE))]
  IN When(Truthy(resize),
          IF Truthy(Get(resize, "width")) /\ Truthy(Get(resize, "height"))
            THEN <<Call("resize", "resize",
                        [width |-> Get(resize, "width"),
                         height |-> Get(resize, "height"),
                         options |-> resizeOptions])>>
          ELSE IF Truthy(Get(resize, "width"))
            THEN <<Call("resize", "resize",
                        [width |-> Get(resize, "width"), height |-> Undefined,
                         options |-> resizeOptions])>>
          ELSE IF Truthy(Get(resize, "height"))
            THEN <<Call("resize", "resize",
                        [width |-> Undefined, height |-> Get(resize, "height"),
                         options |-> resizeOptions])>>
          ELSE <<>>)
     \o When(Truthy(crop),
             <<Call("crop", "extract",
                    [left |-> Or(Get(crop, "x"), Num(0)),
                     top |-> Or(Get(crop, "y"), Num(0)),
                     width |-> Get(crop, "width"),
                     height |-> Get(crop, "height")])>>)
     \o When(rotate.type \notin {"undefined", "null"},
             <<Call("rotate", "rotate",
                    [angle |-> rotate, background |-> Str("rgba(255,255,255,0)")])>>)
     \o When(Truthy(Get(t, "flip")), <<Call("flip", "flip", NoArgs)>>)
     \o When(Truthy(Get(t, "flop")), <<Call("flop", "flop", NoArgs)>>)
     \o When(Truthy(filters), applyTransformations_filters(filters))
     \o When(Truthy(watermark) /\ Truthy(Get(watermark, "text")),
             <<Call("watermark", "composite",
                    [text |-> Get(watermark, "text"),
                     gravity |-> Or(Get(watermark, "position"), Str("southeast"))])>>)
     \o <<applyTransformations_encode(Get(t, "format"), Get(t, "quality"),
                                      Get(t, "compress"))>>

\* sharp's resize with both sides given yields exactly that box (fit cover,
\* no enlargement asked for); with one side given the other keeps the ratio.
ResizeDims(dims, resize) ==
  IF resize.width.type = "number" /\ resize.height.type = "number"
    THEN [width |-> resize.width.n, height |-> resize.height.n]
  ELSE IF resize.width.type = "number"
    THEN [width |-> resize.width.n,
          height |-> (dims.height * resize.width.n) \div dims.width]
  ELSE IF resize.height.type = "number"
    THEN [width |-> (dims.width * resize.height.n) \div dims.height,
          height |-> resize.height.n]
  ELSE dims

\* sharp's extract fails ("bad extract area") when the rectangle leaves the
\* image it is applied to, and rejects a width or height that is no number.
ExtractFits(dims, crop) ==
  /\ crop.width.type = "number" /\ crop.height.type = "number"
  /\ crop.left.n + crop.width.n <= dims.width
  /\ crop.top.n + crop.height.n <= dims.height

\* await sharpInstance.toFile(outputPath): sharp resizes and extracts in the
\* order of the calls, so an extract called after a resize cuts the resized
\* image; the other calls of the pipelines keep the dimensions.
RECURSIVE toFile(_, _, _)
toFile(calls, i, dims) ==
  IF i > Len(calls)
    THEN [ok |-> TRUE, dims |-> dims]
  ELSE IF calls[i].op = "resize"
    THEN toFile(calls, i + 1, ResizeDims(dims, calls[i].args))
  ELSE IF calls[i].op = "extract"
    THEN IF ExtractFits(dims, calls[i].args)
           THEN toFile(calls, i + 1, [width |-> calls[i].args.width.n,
                                      height |-> calls[i].args.height.n])
           ELSE [ok |-> FALSE, error |-> "extract_area: bad extract area"]
  ELSE toFile(calls, i + 1, dims)

\* applyTransformations(sourcePath, transformations): the source must exist;
\* the calls are made, then toFile runs them.
applyTransformations(sourceExists, t) ==
  IF ~sourceExists
    THEN [ok |-> FALSE, error |-> "Source file not found"]
    ELSE toFile(applyTransformations_calls(t), 1, SrcDims)

\* The sharp calls the inline pipeline of transformImageSync makes for a
\* spec, in the order it makes them, up to toFile.
transformImageSync_calls(t) ==
  LET resize == Get(t, "resize")
      crop == Get(t, "crop")
      rotate == Get(t, "rotate")
      filters == Get(t, "filters")
      quality == Or(Get(t, "quality"), Num(80))
      outputFormat == Or(Get(t, "format"), Or(Str(SourceExt), Str("jpeg"))).s
  IN When(Truthy(resize),
          <<Call("resize", "resize",
                 [width |-> Get(resize, "width"), height |-> Get(resize, "height"),
                  options |->
                    [fit |-> Or(Get(resize, "fit"), Str("cover")),
                     position |-> Or(Get(resize, "position"), Str("center")),
                     withoutEnlargement |-> Bool(FALSE)]])>>)
     \o When(Truthy(crop),
             <<Call("crop", "extract",
                    [left |-> Or(Get(crop, "x"), Num(0)),
                     top |-> Or(Get(crop, "y"), Num(0)),
                     width |-> Get(crop, "width"),
                     height |-> Get(crop, "height")])>>)
     \o When(Truthy(rotate),
             <<Call("rotate", "rotate", [angle |-> rotate, background |-> Undefined])>>)
     \o When(Truthy(Get(t, "flip")), <<Call("flip", "flip", NoArgs)>>)
     \o When(Truthy(Get(t, "flop")), <<Call("flop", "flop", NoArgs)>>)
     \o When(Truthy(filters),
             When(Truthy(Get(filters, "grayscale")),
                  <<Call("grayscale", "grayscale", NoArgs)>>)
             \o When(Truthy(Get(filters, "sepia")),
                     <<Call("sepia", "tint", [r |-> 112, g |-> 66, b |-> 20])>>)
             \o When(Truthy(Get(filters, "blur")),
                     <<Call("blur", "blur", [sigma |-> Get(filters, "blur")])>>)
             \o When(Truthy(Get(filters, "sharpen")),
                     <<Call("sharpen", "sharpen", NoArgs)>>)
             \o When(Truthy(Get(filters, "negate")),
                     <<Call("negate", "negate", NoArgs)>>))
     \o <<IF outputFormat \in {"jpeg", "jpg"}
            THEN Call("encode", "jpeg", [quality |-> quality, mozjpeg |-> Bool(FALSE)])
          ELSE IF outputFormat = "png"
            THEN Call("encode", "png", [quality |-> quality, compressionLevel |-> Num(6)])
          ELSE IF outputFormat = "webp"
            THEN Call("encode", "webp", [quality |-> quality])
          ELSE Call("encode", "toFormat", [format |-> Str(outputFormat)])>>

\* ------------------------------------------------------------------- cache
\* JSON.stringify(value, list): the text, as the value it denotes with the
\* members of every object in the order they are written.  With an array
\* replacer, SerializeJSONObject writes, at every nesting level, the
\* properties the list names, in the order of the list; a property whose
\* value is undefined is not written.
RECURSIVE SerializeJSONProperty(_, _)
RECURSIVE SerializeJSONObject(_, _, _)

\* SerializeJSONProperty writing undefined as null, as it does for the
\* elements of an array.
SerializeJSONProperty_null(v, PropertyList) ==
  IF v.type = "object"
    THEN [type |-> "object", members |-> SerializeJSONObject(v, PropertyList, 1)]
  ELSE IF v.type = "undefined" THEN JsNull
  ELSE v

SerializeJSONProperty(v, PropertyList) ==
  IF v.type = "object"
    THEN [type |-> "object", members |-> SerializeJSONObject(v, PropertyList, 1)]
    ELSE v

SerializeJSONObject(o, PropertyList, i) ==
  IF i > Len(PropertyList)
    THEN <<>>
    ELSE LET P == PropertyList[i]
             strP == SerializeJSONProperty(Get(o, P), PropertyList)
         IN (IF strP.type = "undefined" THEN <<>> ELSE <<[k |-> P, v |-> strP]>>)
            \o SerializeJSONObject(o, PropertyList, i + 1)

\* generateCacheKey without the sort of the keys.
generateCacheKey_unsorted(imageId, t) ==
  <<"img", imageId, SerializeJSONProperty(t, ObjectKeys(t))>>

\* generateCacheKey(imageId, transformations): `img_${imageId}_${base64 of
\* JSON.stringify(transformations, Object.keys(transformations).sort())}`;
\* base64 is one-to-one.
generateCacheKey(imageId, t) ==
  <<"img", imageId, SerializeJSONProperty(t, Sort(ObjectKeys(t)))>>

\* Number of live keys of a cache.
CacheKeys(c, other) == Cardinality(DOMAIN c) + other

\* setInCache on a cache without maxKeys.
setInCache_unbounded(c, other, key, value) ==
  [k \in DOMAIN c \cup {key} |-> IF k = key THEN value ELSE c[k]]

\* setInCache(key, value): NodeCache.set throws ECACHEFULL when the cache
\* already holds maxKeys keys; setInCache catches it and returns false.
setInCache(c, other, key, value) ==
  IF CacheKeys(c, other) >= maxKeys
    THEN c
    ELSE [k \in DOMAIN c \cup {key} |-> IF k = key THEN value ELSE c[k]]

EmptyCache == [k \in {} |-> 0]

\* setInCache's result: false when NodeCache.set threw.
setInCache_result(c, other) == CacheKeys(c, other) < maxKeys

\* getFromCache returning whatever the store holds for the key.
getFromCache_stale(c, expired, key) == IF key \in DOMAIN c THEN c[key] ELSE 0

\* getFromCache(key): the value, or null (here 0, which is no path) on a miss.
\* NodeCache.get checks the TTL of the entry it finds and returns undefined
\* for one whose TTL has run out.
getFromCache(c, expired, key) ==
  IF key \in DOMAIN c /\ key \notin expired THEN c[key] ELSE 0

\* The store after getFromCache(key): NodeCache.get deletes the entry it
\* finds expired (deleteOnExpire).
getFromCache_deleteOnExpire(c, expired, key) ==
  IF key \in expired THEN [k \in DOMAIN c \ {key} |-> c[k]] ELSE c

\* deleteFromCache(key)
deleteFromCache(c, key) == [k \in DOMAIN c \ {key} |-> c[k]]

\* clearImageCache deleting every key of the cache.
clearImageCache_flushAll(c, imageId) == [k \in {} |-> 0]

\* clearImageCache(imageId): deletes the keys that start with img_<imageId>_.
\* An image id is a UUID: it has a fixed length and no "_", so that a key
\* starts with the prefix of an id exactly when it was made for that id.
clearImageCache(c, imageId) ==
  [k \in {h \in DOMAIN c : h[2] # imageId} |-> c[k]]

\* getCacheStats().keys
getCacheStats(c, other) == CacheKeys(c, other)

\* ---------------------------------------------------------------- messages
\* The job message transformImage builds.
JobMessage(jobId, imageId, userId, t) ==
  [jobId |-> jobId, imageId |-> imageId, userId |-> userId, transformations |-> t,
   json |-> TRUE]

\* A message of another publisher, whose content JSON.parse rejects.
Garbage ==
  [jobId |-> 0, imageId |-> Null, userId |-> Null, transformations |-> Null,
   json |-> FALSE]

\* Messages of the queue and of the workers about one image.
QueuedFor(id) == {i \in 1..Len(queue) : queue[i].imageId = id}
HeldFor(id) == {w \in Workers : unacked[w] # <<>> /\ unacked[w][1].imageId = id}
ActiveJobs(id) == Cardinality(QueuedFor(id)) + Cardinality(HeldFor(id))

\* -------------------------------------------------------------------- Init
NoLocals == [result |-> <<>>, image |-> <<>>, error |-> Null]
NoRequest == [id |-> Null, transformations |-> Null, image |-> <<>>, jobId |-> 0]

\* transformImageSync before its first await, and no function under test.
NoSyncRequest ==
  [id |-> Null, transformations |-> Null, image |-> <<>>, path |-> 0, after |-> {}]
NoCall == [op |-> "none"]

\* The database, the disk, the broker and the workers at the start.
InitJobs ==
  /\ images = [id \in ImageIds |-> NewImage]
  /\ files = ImageIds
  /\ queue \in {<<>>, <<Garbage>>}
  /\ unacked = [w \in Workers |-> <<>>]
  /\ wpc = [w \in Workers |-> "idle"]
  /\ wloc = [w \in Workers |-> NoLocals]
  /\ cache = [w \in Workers |-> EmptyCache]
  /\ \E n \in {0, maxKeys} : cacheOther = [w \in Workers |-> n]
  /\ rpc = [r \in Requests |-> "idle"]
  /\ rloc = [r \in Requests |-> NoRequest]
  /\ dpc = "idle"
  /\ dloc = Null
  /\ nextJobId = 1
  /\ nextOut = 1
  /\ shutdowns = 0
  /\ jobStatus = [j \in JobIds |-> Null]

\* The API server with an empty cache, serving no synchronous transform.
InitApi ==
  /\ apiCache = EmptyCache
  /\ apiCacheOther = 0
  /\ apiExpired = {}
  /\ spc = [s \in SyncRequests |-> "idle"]
  /\ sloc = [s \in SyncRequests |-> NoSyncRequest]

\* No function is under test.
InitNoCall ==
  /\ arg = NoCall
  /\ ret = NoCall

\* connectRabbitMQ at its call, and after it has returned an open channel;
\* retried: the call is one the catch block made.
Connecting ==
  [pc |-> "connect", timer |-> 0, connection |-> "none", channel |-> "none",
   retried |-> FALSE]
Connected ==
  [pc |-> "returned", timer |-> 0, connection |-> "open", channel |-> "open",
   retried |-> FALSE]

\* Every handler serves a request of the owner of the images.
InitCallers == caller = [h \in Handlers |-> OwnerId]

\* Every process has connected to the broker and the queue is declared.
InitConnected ==
  /\ broker = [up |-> TRUE, durableQueue |-> TRUE]
  /\ conn = [p \in Processes |-> Connected]
  /\ server = "listening"

InitFull ==
  /\ InitJobs
  /\ InitApi
  /\ InitNoCall
  /\ InitConnected
  /\ InitCallers

\* Freshly started workers: their caches are empty.
Init ==
  /\ InitFull
  /\ cacheOther = [w \in Workers |-> 0]

\* ---------------------------------------------------------------- validators
\* The validators of express-validator, which test the value converted to a
\* string: .optional() passes an undefined value on.
Optional(v, valid) == v.type = "undefined" \/ valid

\* The decimal strings of the request bodies, and their values.
IntStrings == [s \in {"100"} |-> 100]

\* .isObject()
isObject(v) == v.type = "object"

\* .isInt({ min, max }): an integer, or a string that spells one.
isInt(v, min, max) ==
  \/ v.type = "number" /\ v.n >= min /\ v.n <= max
  \/ v.type = "string" /\ v.s \in DOMAIN IntStrings
       /\ IntStrings[v.s] >= min /\ IntStrings[v.s] <= max

\* .isInt({ min })
isIntMin(v, min) ==
  \/ v.type = "number" /\ v.n >= min
  \/ v.type = "string" /\ v.s \in DOMAIN IntStrings /\ IntStrings[v.s] >= min

\* .isBoolean(): true, false, 1, 0 and their strings.
isBoolean(v) ==
  \/ v.type = "boolean"
  \/ v.type = "number" /\ v.n \in {0, 1}
  \/ v.type = "string" /\ v.s \in {"true", "false", "0", "1"}

\* .isString()
isString(v) == v.type = "string"

\* .isIn(['jpeg', 'jpg', 'png', 'webp', 'gif', 'tiff', 'bmp'])
isFormat(v) ==
  v.type = "string" /\ v.s \in {"jpeg", "jpg", "png", "webp", "gif", "tiff", "bmp"}

\* validateTransformation: the rules on req.body.transformations; TRUE when
\* validationResult(req) is empty and handleValidation calls next().
validateTransformation(t) ==
  /\ isObject(t)
  /\ Optional(Get(t, "resize"), isObject(Get(t, "resize")))
  /\ Optional(Get(Get(t, "resize"), "width"),
              isInt(Get(Get(t, "resize"), "width"), 1, 10000))
  /\ Optional(Get(Get(t, "resize"), "height"),
              isInt(Get(Get(t, "resize"), "height"), 1, 10000))
  /\ Optional(Get(t, "crop"), isObject(Get(t, "crop")))
  /\ Optional(Get(Get(t, "crop"), "width"), isIntMin(Get(Get(t, "crop"), "width"), 1))
  /\ Optional(Get(Get(t, "crop"), "height"), isIntMin(Get(Get(t, "crop"), "height"), 1))
  /\ Optional(Get(Get(t, "crop"), "x"), isIntMin(Get(Get(t, "crop"), "x"), 0))
  /\ Optional(Get(Get(t, "crop"), "y"), isIntMin(Get(Get(t, "crop"), "y"), 0))
  /\ Optional(Get(t, "rotate"), isInt(Get(t, "rotate"), 0 - 360, 360))
  /\ Optional(Get(t, "format"), isFormat(Get(t, "format")))
  /\ Optional(Get(t, "quality"), isInt(Get(t, "quality"), 1, 100))
  /\ Optional(Get(t, "filters"), isObject(Get(t, "filters")))
  /\ Optional(Get(Get(t, "filters"), "grayscale"),
              isBoolean(Get(Get(t, "filters"), "grayscale")))
  /\ Optional(Get(Get(t, "filters"), "sepia"),
              isBoolean(Get(Get(t, "filters"), "sepia")))
  /\ Optional(Get(t, "flip"), isBoolean(Get(t, "flip")))
  /\ Optional(Get(t, "flop"), isBoolean(Get(t, "flop")))
  /\ Optional(Get(t, "watermark"), isObject(Get(t, "watermark")))
  /\ Optional(Get(Get(t, "watermark"), "text"),
              isString(Get(Get(t, "watermark"), "text")))

\* ---------------------------------------------------------- transformImage
RequestOver == {"idle", "202", "400", "404", "409", "500"}

\* Image.findOne({ where: { id, userId } }) without userId in the where
\* clause: a row is found whoever owns it.
findOne_anyUser(id, userId) == id \in DOMAIN images

\* Image.findOne({ where: { id, userId: req.userId } }): whether a row is
\* found.
findOne(id, userId) == id \in DOMAIN images /\ images[id].userId = userId

\* authenticate: the token of the request names its user, req.userId, before
\* the handler starts.
authenticate(h, userId) ==
  /\ h \in Requests => rpc[h] \in RequestOver
  /\ h \in SyncRequests => spc[h] = "idle"
  /\ h = "delete" => dpc = "idle"
  /\ caller' = [caller EXCEPT ![h] = userId]
  /\ UNCHANGED <<connVars, dbVars, queue, workerVars, jobStatus, requestVars,
                 deleteVars, apiCacheVars, syncVars, callVars>>

\* getTransformationStatus: findOne with the five attributes; 404 without a
\* row of the caller, else the status fields.
getTransformationStatus(id) ==
  /\ ret' = IF findOne(id, caller["status"])
              THEN [op |-> "getTransformationStatus", status |-> 200,
                    isProcessing |-> images[id].isProcessing,
                    processingStatus |-> images[id].processingStatus,
                    error |-> images[id].processingError]
              ELSE [op |-> "getTransformationStatus", status |-> 404]
  /\ UNCHANGED <<connVars, caller, dbVars, queue, workerVars, jobStatus, requestVars,
                 deleteVars, apiCacheVars, syncVars, arg>>

\* Requests that may still draw a job id.
Undecided == {r \in Requests : rpc[r] = "findOne"}

\* handleValidation on POST /:id/transform: errors of validateTransformation
\* are answered 400 and next() is not called.
handleValidation_transform(r, id, t) ==
  /\ rpc[r] \in RequestOver
  /\ ~validateTransformation(t)
  /\ rpc' = [rpc EXCEPT ![r] = "400"]
  /\ UNCHANGED <<connVars, caller, dbVars, queue, workerVars, deleteVars, rloc, nextJobId,
                 jobStatus, apiCacheVars, syncVars, callVars>>

\* validateTransformation has called next(); const image = await
\* Image.findOne(...)
transformImage_findOne(r, id, t) ==
  /\ rpc[r] \in RequestOver
  /\ validateTransformation(t)
  /\ (nextJobId - 1) + Cardinality(Undecided) < MaxJobs
  /\ rpc' = [rpc EXCEPT ![r] = "findOne"]
  /\ rloc' = [rloc EXCEPT ![r] =
       [id |-> id, transformations |-> t, jobId |-> 0,
        image |-> IF findOne(id, caller[r])
                    THEN <<[isProcessing |-> images[id].isProcessing]>>
                    ELSE <<>>]]
  /\ UNCHANGED <<connVars, caller, dbVars, queue, workerVars, deleteVars, nextJobId, jobStatus,
                 apiCacheVars, syncVars, callVars>>

\* transformImage_check without the isProcessing test: a request goes on
\* although a job is in flight.
transformImage_check_noGate(r) ==
  /\ rpc[r] = "findOne"
  /\ IF rloc[r].image = <<>> \/ rloc[r].id \notin files
       THEN /\ rpc' = [rpc EXCEPT ![r] = "404"]
            /\ rloc' = [rloc EXCEPT ![r] = NoRequest]
            /\ UNCHANGED nextJobId
       ELSE /\ rpc' = [rpc EXCEPT ![r] = "update"]
            /\ rloc' = [rloc EXCEPT ![r].jobId = nextJobId]
            /\ nextJobId' = nextJobId + 1
  /\ UNCHANGED <<connVars, caller, dbVars, queue, workerVars, jobStatus, deleteVars,
                 apiCacheVars, syncVars, callVars>>

\* The checks after findOne, up to the await of image.update.
transformImage_check(r) ==
  /\ rpc[r] = "findOne"
  /\ IF rloc[r].image = <<>>
       THEN /\ rpc' = [rpc EXCEPT ![r] = "404"]
            /\ rloc' = [rloc EXCEPT ![r] = NoRequest]
            /\ UNCHANGED nextJobId
     ELSE IF rloc[r].image[1].isProcessing
       THEN /\ rpc' = [rpc EXCEPT ![r] = "409"]
            /\ rloc' = [rloc EXCEPT ![r] = NoRequest]
            /\ UNCHANGED nextJobId
     ELSE IF rloc[r].id \notin files
       THEN /\ rpc' = [rpc EXCEPT ![r] = "404"]
            /\ rloc' = [rloc EXCEPT ![r] = NoRequest]
            /\ UNCHANGED nextJobId
     ELSE /\ rpc' = [rpc EXCEPT ![r] = "update"]
          /\ rloc' = [rloc EXCEPT ![r].jobId = nextJobId]
          /\ nextJobId' = nextJobId + 1
  /\ UNCHANGED <<connVars, caller, dbVars, queue, workerVars, jobStatus, deleteVars,
                 apiCacheVars, syncVars, callVars>>

\* await image.update({isProcessing: true, processingStatus: 'pending', ...})
transformImage_update(r) ==
  /\ rpc[r] = "update"
  /\ images' = UpdateRow(images, rloc[r].id,
       [isProcessing |-> TRUE, processingStatus |-> "pending",
        processingError |-> Null])
  /\ jobStatus' = [jobStatus EXCEPT ![rloc[r].jobId] = "pending"]
  /\ rpc' = [rpc EXCEPT ![r] = "publish"]
  /\ UNCHANGED <<connVars, caller, files, queue, workerVars, rloc, nextJobId, deleteVars,
                 apiCacheVars, syncVars, callVars>>

\* await publishToQueue(jobMessage); res.status(202).  getChannel throws
\* without a channel and sendToQueue throws on a closed one: publishToQueue
\* rethrows and the error handler answers 500.
transformImage_publish(r) ==
  /\ rpc[r] = "publish"
  /\ IF conn["api"].channel = "open"
       THEN /\ queue' = Append(queue,
                  JobMessage(rloc[r].jobId, rloc[r].id, caller[r],
                             rloc[r].transformations))
            /\ rpc' = [rpc EXCEPT ![r] = "202"]
       ELSE /\ queue' = queue
            /\ rpc' = [rpc EXCEPT ![r] = "500"]
  /\ rloc' = [rloc EXCEPT ![r] = NoRequest]
  /\ UNCHANGED <<connVars, caller, dbVars, workerVars, nextJobId, jobStatus, deleteVars,
                 apiCacheVars, syncVars, callVars>>

\* ------------------------------------------------------------------ broker
\* consume_deliver without ch.prefetch(1): the broker hands the head of the
\* queue to the consumer whatever it holds, and the callback starts when the
\* worker is free.
consume_deliver_noPrefetch(w) ==
  /\ wpc[w] # "down"
  /\ queue # <<>>
  /\ unacked' = [unacked EXCEPT ![w] = Append(@, Head(queue))]
  /\ queue' = Tail(queue)
  /\ wpc' = [wpc EXCEPT ![w] =
               IF wpc[w] # "idle" THEN @
               ELSE IF Head(queue).json THEN "markProcessing" ELSE "nack"]
  /\ UNCHANGED <<connVars, caller, dbVars, wloc, cache, cacheOther, nextOut, shutdowns,
                 jobStatus, requestVars, deleteVars,
                 apiCacheVars, syncVars, callVars>>

\* ch.consume with prefetch(1): the broker hands the head of the queue to a
\* consumer that holds no unsettled message.  The callback runs up to its
\* first await: JSON.parse (which throws on another publisher's payload),
\* then processJob up to the await of Image.update.
consume_deliver(w) ==
  /\ wpc[w] = "idle"
  /\ unacked[w] = <<>>
  /\ queue # <<>>
  /\ unacked' = [unacked EXCEPT ![w] = <<Head(queue)>>]
  /\ queue' = Tail(queue)
  /\ wpc' = [wpc EXCEPT ![w] = IF Head(queue).json THEN "markProcessing" ELSE "nack"]
  /\ UNCHANGED <<connVars, caller, dbVars, wloc, cache, cacheOther, nextOut, shutdowns,
                 jobStatus, requestVars, deleteVars,
                 apiCacheVars, syncVars, callVars>>

\* ch.ack(msg) once the callback has returned: the message leaves the queue.
consume_ack(w) ==
  /\ wpc[w] = "ack"
  /\ unacked' = [unacked EXCEPT ![w] = <<>>]
  /\ wpc' = [wpc EXCEPT ![w] = "idle"]
  /\ wloc' = [wloc EXCEPT ![w] = NoLocals]
  /\ UNCHANGED <<connVars, caller, dbVars, queue, cache, cacheOther, nextOut, shutdowns,
                 jobStatus, requestVars, deleteVars,
                 apiCacheVars, syncVars, callVars>>

\* consume_nack with requeue = false: the broker drops the message.
consume_nack_noRequeue(w) ==
  /\ wpc[w] = "nack"
  /\ unacked' = [unacked EXCEPT ![w] = <<>>]
  /\ wpc' = [wpc EXCEPT ![w] = "idle"]
  /\ wloc' = [wloc EXCEPT ![w] = NoLocals]
  /\ UNCHANGED <<connVars, caller, dbVars, queue, cache, cacheOther, nextOut, shutdowns,
                 jobStatus, requestVars, deleteVars,
                 apiCacheVars, syncVars, callVars>>

\* ch.nack(msg, false, true) once the callback has thrown: the broker puts
\* the message back at the head of the queue.
consume_nack(w) ==
  /\ wpc[w] = "nack"
  /\ queue' = unacked[w] \o queue
  /\ unacked' = [unacked EXCEPT ![w] = <<>>]
  /\ wpc' = [wpc EXCEPT ![w] = "idle"]
  /\ wloc' = [wloc EXCEPT ![w] = NoLocals]
  /\ UNCHANGED <<connVars, caller, dbVars, cache, cacheOther, nextOut, shutdowns,
                 jobStatus, requestVars, deleteVars,
                 apiCacheVars, syncVars, callVars>>

\* -------------------------------------------------------------- processJob
\* await Image.update({processingStatus: 'processing', processingError: null})
processJob_markProcessing(w) ==
  /\ wpc[w] = "markProcessing"
  /\ images' = UpdateRow(images, unacked[w][1].imageId,
       [processingStatus |-> "processing", processingError |-> Null])
  /\ jobStatus' = [jobStatus EXCEPT ![unacked[w][1].jobId] = "processing"]
  /\ wpc' = [wpc EXCEPT ![w] = "apply"]
  /\ UNCHANGED <<connVars, caller, files, queue, unacked, wloc, cache, cacheOther, nextOut,
                 shutdowns, requestVars, deleteVars,
                 apiCacheVars, syncVars, callVars>>

\* const result = await applyTransformations(sourcePath, transformations)
processJob_apply(w) ==
  /\ wpc[w] = "apply"
  /\ LET job == unacked[w][1]
         out == applyTransformations(job.imageId \in files, job.transformations)
     IN IF out.ok
          THEN /\ wloc' = [wloc EXCEPT ![w].result =
                             <<[path |-> nextOut, dims |-> out.dims]>>]
               /\ nextOut' = nextOut + 1
               /\ wpc' = [wpc EXCEPT ![w] = "findByPk"]
          ELSE /\ wloc' = [wloc EXCEPT ![w].error = out.error]
               /\ nextOut' = nextOut
               /\ wpc' = [wpc EXCEPT ![w] = "catch"]
  /\ UNCHANGED <<connVars, caller, dbVars, queue, unacked, cache, cacheOther, shutdowns,
                 jobStatus, requestVars, deleteVars,
                 apiCacheVars, syncVars, callVars>>

\* const image = await Image.findByPk(imageId); without a row processJob
\* returns at once.
processJob_findByPk(w) ==
  /\ wpc[w] = "findByPk"
  /\ LET id == unacked[w][1].imageId
     IN IF id \in DOMAIN images
          THEN /\ wloc' = [wloc EXCEPT ![w].image =
                             <<[transformations |-> images[id].transformations]>>]
               /\ wpc' = [wpc EXCEPT ![w] = "update"]
          ELSE /\ wloc' = wloc
               /\ wpc' = [wpc EXCEPT ![w] = "ack"]
  /\ UNCHANGED <<connVars, caller, dbVars, queue, unacked, cache, cacheOther, nextOut, shutdowns,
                 jobStatus, requestVars, deleteVars,
                 apiCacheVars, syncVars, callVars>>

\* The history record processJob appends.
HistoryRecord(job, result) ==
  [jobId |-> job.jobId, transformations |-> job.transformations, output |-> result]

\* await image.update({isProcessing: false, processingStatus: 'completed',
\*                     processingError: null, transformations: [...]})
processJob_update(w) ==
  /\ wpc[w] = "update"
  /\ LET job == unacked[w][1]
     IN images' = UpdateRow(images, job.imageId,
          [isProcessing |-> FALSE, processingStatus |-> "completed",
           processingError |-> Null,
           transformations |-> Append(wloc[w].image[1].transformations,
                                      HistoryRecord(job, wloc[w].result[1]))])
  /\ jobStatus' = [jobStatus EXCEPT ![unacked[w][1].jobId] = "completed"]
  /\ wpc' = [wpc EXCEPT ![w] = "setInCache"]
  /\ UNCHANGED <<connVars, caller, files, queue, unacked, wloc, cache, cacheOther, nextOut,
                 shutdowns, requestVars, deleteVars,
                 apiCacheVars, syncVars, callVars>>

\* processJob_setInCache with a setInCache that lets the error of
\* NodeCache.set escape: processJob's catch block records the job as failed.
processJob_setInCache_throws(w) ==
  /\ wpc[w] = "setInCache"
  /\ LET job == unacked[w][1]
         key == generateCacheKey(job.imageId, job.transformations)
     IN IF CacheKeys(cache[w], cacheOther[w]) >= maxKeys
          THEN /\ wloc' = [wloc EXCEPT ![w].error = "ECACHEFULL"]
               /\ wpc' = [wpc EXCEPT ![w] = "catch"]
               /\ cache' = cache
          ELSE /\ cache' = [cache EXCEPT ![w] =
                              setInCache(@, cacheOther[w], key, wloc[w].result[1].path)]
               /\ wpc' = [wpc EXCEPT ![w] = "ack"]
               /\ wloc' = wloc
  /\ UNCHANGED <<connVars, caller, dbVars, queue, unacked, cacheOther, nextOut, shutdowns,
                 jobStatus, requestVars, deleteVars,
                 apiCacheVars, syncVars, callVars>>

\* setInCache(generateCacheKey(imageId, transformations), result.path);
\* return { success: true, result }
processJob_setInCache(w) ==
  /\ wpc[w] = "setInCache"
  /\ LET job == unacked[w][1]
     IN cache' = [cache EXCEPT ![w] =
          setInCache(@, cacheOther[w],
                     generateCacheKey(job.imageId, job.transformations),
                     wloc[w].result[1].path)]
  /\ wpc' = [wpc EXCEPT ![w] = "ack"]
  /\ UNCHANGED <<connVars, caller, dbVars, queue, unacked, wloc, cacheOther, nextOut, shutdowns,
                 jobStatus, requestVars, deleteVars,
                 apiCacheVars, syncVars, callVars>>

\* processJob_catch without isProcessing: false in its update.
processJob_catch_keepsFlag(w) ==
  /\ wpc[w] = "catch"
  /\ images' = UpdateRow(images, unacked[w][1].imageId,
       [processingStatus |-> "failed", processingError |-> wloc[w].error])
  /\ jobStatus' = [jobStatus EXCEPT ![unacked[w][1].jobId] = "failed"]
  /\ wpc' = [wpc EXCEPT ![w] = "nack"]
  /\ UNCHANGED <<connVars, caller, files, queue, unacked, wloc, cache, cacheOther, nextOut,
                 shutdowns, requestVars, deleteVars,
                 apiCacheVars, syncVars, callVars>>

\* catch: await Image.update({isProcessing: false, processingStatus:
\* 'failed', processingError: error.message}); throw error
processJob_catch(w) ==
  /\ wpc[w] = "catch"
  /\ images' = UpdateRow(images, unacked[w][1].imageId,
       [isProcessing |-> FALSE, processingStatus |-> "failed",
        processingError |-> wloc[w].error])
  /\ jobStatus' = [jobStatus EXCEPT ![unacked[w][1].jobId] = "failed"]
  /\ wpc' = [wpc EXCEPT ![w] = "nack"]
  /\ UNCHANGED <<connVars, caller, files, queue, unacked, wloc, cache, cacheOther, nextOut,
                 shutdowns, requestVars, deleteVars,
                 apiCacheVars, syncVars, callVars>>

\* SIGINT / SIGTERM: process.exit(0) wherever the worker is.  Its memory
\* (locals, cache) is gone and the broker requeues its unsettled message.
worker_exit(w) ==
  /\ wpc[w] # "down"
  /\ shutdowns < MaxShutdowns
  /\ shutdowns' = shutdowns + 1
  /\ queue' = unacked[w] \o queue
  /\ unacked' = [unacked EXCEPT ![w] = <<>>]
  /\ wpc' = [wpc EXCEPT ![w] = "down"]
  /\ wloc' = [wloc EXCEPT ![w] = NoLocals]
  /\ cache' = [cache EXCEPT ![w] = EmptyCache]
  /\ cacheOther' = [cacheOther EXCEPT ![w] = 0]
  /\ UNCHANGED <<connVars, caller, dbVars, nextOut, jobStatus, requestVars, deleteVars,
                 apiCacheVars, syncVars, callVars>>

\* initWorker: the worker process is started again and consumes.
initWorker(w) ==
  /\ wpc[w] = "down"
  /\ wpc' = [wpc EXCEPT ![w] = "idle"]
  /\ UNCHANGED <<connVars, caller, dbVars, queue, unacked, wloc, cache, cacheOther, nextOut,
                 shutdowns, jobStatus, requestVars, deleteVars,
                 apiCacheVars, syncVars, callVars>>

\* ------------------------------------------------------------- deleteImage
\* const image = await Image.findOne(...); a missing row answers 404.
deleteImage_findOne(id) ==
  /\ dpc = "idle"
  /\ findOne(id, caller["delete"])
  /\ dpc' = "deleteFile"
  /\ dloc' = id
  /\ UNCHANGED <<connVars, caller, dbVars, queue, workerVars, jobStatus, requestVars,
                 apiCacheVars, syncVars, callVars>>

\* await deleteFile(image.path)
deleteImage_deleteFile ==
  /\ dpc = "deleteFile"
  /\ files' = files \ {dloc}
  /\ dpc' = "destroy"
  /\ UNCHANGED <<connVars, caller, images, queue, workerVars, jobStatus, requestVars, dloc,
                 apiCacheVars, syncVars, callVars>>

\* clearImageCache(id); await image.destroy()
deleteImage_destroy ==
  /\ dpc = "destroy"
  /\ apiCache' = clearImageCache(apiCache, dloc)
  /\ apiExpired' = {k \in apiExpired : k[2] # dloc}
  /\ UNCHANGED apiCacheOther
  /\ images' = [id \in DOMAIN images \ {dloc} |-> images[id]]
  /\ dpc' = "idle"
  /\ dloc' = Null
  /\ UNCHANGED <<connVars, caller, files, queue, workerVars, jobStatus, requestVars,
                 syncVars, callVars>>

\* ------------------------------------------------------ transformImageSync
\* fs.existsSync of an output path: the files toFile has written so far.
existsSync(path) == path \in 1..(nextOut - 1)

\* The synchronous transforms that have been answered with a file.
Served == {s \in SyncRequests : spc[s] \in {"200", "hit"}}

\* handleValidation on POST /:id/transform-sync: errors of
\* validateTransformation are answered 400 and next() is not called.
handleValidation_transformSync(s, id, t) ==
  /\ spc[s] = "idle"
  /\ ~validateTransformation(t)
  /\ spc' = [spc EXCEPT ![s] = "400"]
  /\ UNCHANGED <<connVars, caller, dbVars, queue, workerVars, jobStatus, requestVars, deleteVars,
                 sloc, apiCacheVars, callVars>>

\* validateTransformation has called next(); const image = await
\* Image.findOne(...); after: the transforms answered before this one began.
transformImageSync_findOne(s, id, t) ==
  /\ spc[s] = "idle"
  /\ validateTransformation(t)
  /\ spc' = [spc EXCEPT ![s] = "findOne"]
  /\ sloc' = [sloc EXCEPT ![s] =
       [id |-> id, transformations |-> t,
        image |-> IF findOne(id, caller[s])
                    THEN <<[transformations |-> images[id].transformations]>>
                    ELSE <<>>,
        path |-> 0, after |-> Served]]
  /\ UNCHANGED <<connVars, caller, dbVars, queue, workerVars, jobStatus, requestVars, deleteVars,
                 apiCacheVars, callVars>>

\* transformImageSync_check without fs.existsSync(sourcePath): a missing
\* source file is found out by the pipeline only.
transformImageSync_check_noExistsSync(s) ==
  /\ spc[s] = "findOne"
  /\ LET cacheKey == generateCacheKey(sloc[s].id, sloc[s].transformations)
         cachedPath == getFromCache(apiCache, apiExpired, cacheKey)
     IN IF sloc[s].image = <<>>
          THEN /\ spc' = [spc EXCEPT ![s] = "404"]
               /\ sloc' = sloc
               /\ UNCHANGED <<apiCache, apiExpired>>
        ELSE /\ apiCache' = getFromCache_deleteOnExpire(apiCache, apiExpired, cacheKey)
             /\ apiExpired' = apiExpired \ {cacheKey}
             /\ IF cachedPath # 0 /\ existsSync(cachedPath)
                  THEN /\ spc' = [spc EXCEPT ![s] = "hit"]
                       /\ sloc' = [sloc EXCEPT ![s].path = cachedPath]
                  ELSE /\ spc' = [spc EXCEPT ![s] = "toFile"]
                       /\ sloc' = sloc
  /\ UNCHANGED <<connVars, caller, dbVars, queue, workerVars, jobStatus, requestVars, deleteVars,
                 apiCacheOther, callVars>>

\* The 404 checks, the cache lookup (a hit is answered with the cached file)
\* and the calls that build the pipeline, up to the await of toFile.
transformImageSync_check(s) ==
  /\ spc[s] = "findOne"
  /\ LET cacheKey == generateCacheKey(sloc[s].id, sloc[s].transformations)
         cachedPath == getFromCache(apiCache, apiExpired, cacheKey)
     IN IF sloc[s].image = <<>> \/ sloc[s].id \notin files
          THEN /\ spc' = [spc EXCEPT ![s] = "404"]
               /\ sloc' = sloc
               /\ UNCHANGED <<apiCache, apiExpired>>
        ELSE /\ apiCache' = getFromCache_deleteOnExpire(apiCache, apiExpired, cacheKey)
             /\ apiExpired' = apiExpired \ {cacheKey}
             /\ IF cachedPath # 0 /\ existsSync(cachedPath)
                  THEN /\ spc' = [spc EXCEPT ![s] = "hit"]
                       /\ sloc' = [sloc EXCEPT ![s].path = cachedPath]
                  ELSE /\ spc' = [spc EXCEPT ![s] = "toFile"]
                       /\ sloc' = sloc
  /\ UNCHANGED <<connVars, caller, dbVars, queue, workerVars, jobStatus, requestVars, deleteVars,
                 apiCacheOther, callVars>>

\* transformImageSync_toFile with setInCache(cacheKey, outputPath) made
\* before toFile is awaited: the entry is set whether or not the file is
\* written.
transformImageSync_toFile_setsFirst(s) ==
  /\ spc[s] = "toFile"
  /\ LET t == sloc[s].transformations
         out == IF sloc[s].id \in files
                  THEN toFile(transformImageSync_calls(t), 1, SrcDims)
                  ELSE [ok |-> FALSE, error |-> "Input file is missing"]
     IN /\ apiCache' = setInCache(apiCache, apiCacheOther,
                                  generateCacheKey(sloc[s].id, t), nextOut)
        /\ apiExpired' = IF setInCache_result(apiCache, apiCacheOther)
                           THEN apiExpired \ {generateCacheKey(sloc[s].id, t)}
                           ELSE apiExpired
        /\ IF out.ok
             THEN /\ nextOut' = nextOut + 1
                  /\ sloc' = [sloc EXCEPT ![s].path = nextOut]
                  /\ spc' = [spc EXCEPT ![s] = "update"]
             ELSE /\ spc' = [spc EXCEPT ![s] = "500"]
                  /\ UNCHANGED <<nextOut, sloc>>
  /\ UNCHANGED <<connVars, caller, dbVars, queue, unacked, wpc, wloc, cache, cacheOther, shutdowns,
                 jobStatus, requestVars, deleteVars, apiCacheOther, callVars>>

\* await sharpInstance.toFile(outputPath), then setInCache(cacheKey,
\* outputPath), up to the await of image.update; an error of sharp is
\* answered 500.
transformImageSync_toFile(s) ==
  /\ spc[s] = "toFile"
  /\ LET t == sloc[s].transformations
         out == IF sloc[s].id \in files
                  THEN toFile(transformImageSync_calls(t), 1, SrcDims)
                  ELSE [ok |-> FALSE, error |-> "Input file is missing"]
     IN IF out.ok
          THEN /\ nextOut' = nextOut + 1
               /\ apiCache' = setInCache(apiCache, apiCacheOther,
                                         generateCacheKey(sloc[s].id, t), nextOut)
               /\ apiExpired' = IF setInCache_result(apiCache, apiCacheOther)
                                  THEN apiExpired \ {generateCacheKey(sloc[s].id, t)}
                                  ELSE apiExpired
               /\ sloc' = [sloc EXCEPT ![s].path = nextOut]
               /\ spc' = [spc EXCEPT ![s] = "update"]
          ELSE /\ spc' = [spc EXCEPT ![s] = "500"]
               /\ UNCHANGED <<nextOut, apiCache, apiExpired, sloc>>
  /\ UNCHANGED <<connVars, caller, dbVars, queue, unacked, wpc, wloc, cache, cacheOther, shutdowns,
                 jobStatus, requestVars, deleteVars, apiCacheOther, callVars>>

\* The record transformImageSync appends: the spec and outputPath; it
\* carries no jobId (here 0).
SyncRecord(t, path) ==
  [jobId |-> 0, transformations |-> t, output |-> [path |-> path]]

\* transformImageSync_update writing the job fields as processJob does.
transformImageSync_update_completes(s) ==
  /\ spc[s] = "update"
  /\ images' = UpdateRow(images, sloc[s].id,
       [isProcessing |-> FALSE, processingStatus |-> "completed",
        processingError |-> Null,
        transformations |-> Append(sloc[s].image[1].transformations,
                                   SyncRecord(sloc[s].transformations, sloc[s].path))])
  /\ spc' = [spc EXCEPT ![s] = "200"]
  /\ UNCHANGED <<connVars, caller, files, queue, workerVars, jobStatus, requestVars,
                 deleteVars, apiCacheVars, sloc, callVars>>

\* await image.update({transformations: [...], lastTransformedAt}), then
\* res.sendFile(outputPath)
transformImageSync_update(s) ==
  /\ spc[s] = "update"
  /\ images' = UpdateRow(images, sloc[s].id,
       [transformations |-> Append(sloc[s].image[1].transformations,
                                   SyncRecord(sloc[s].transformations, sloc[s].path))])
  /\ spc' = [spc EXCEPT ![s] = "200"]
  /\ UNCHANGED <<connVars, caller, files, queue, workerVars, jobStatus, requestVars, deleteVars,
                 apiCacheVars, sloc, callVars>>

\* ------------------------------------------------------- cache operations
\* One call of a function of config/cache.js on the cache of the API server,
\* and what it returned.
call_setInCache(key, value) ==
  /\ ret' = [op |-> "setInCache", key |-> key, value |-> value,
             full |-> CacheKeys(apiCache, apiCacheOther) >= maxKeys,
             new |-> key \notin DOMAIN apiCache,
             result |-> setInCache_result(apiCache, apiCacheOther)]
  /\ apiCache' = setInCache(apiCache, apiCacheOther, key, value)
  /\ apiExpired' = IF setInCache_result(apiCache, apiCacheOther)
                     THEN apiExpired \ {key} ELSE apiExpired
  /\ UNCHANGED <<connVars, caller, dbVars, queue, workerVars, jobStatus, requestVars, deleteVars,
                 apiCacheOther, syncVars, arg>>

call_getFromCache(key) ==
  /\ ret' = [op |-> "getFromCache", key |-> key,
             stored |-> key \in DOMAIN apiCache,
             expired |-> key \in apiExpired,
             result |-> getFromCache(apiCache, apiExpired, key)]
  /\ apiCache' = getFromCache_deleteOnExpire(apiCache, apiExpired, key)
  /\ apiExpired' = apiExpired \ {key}
  /\ UNCHANGED <<connVars, caller, dbVars, queue, workerVars, jobStatus, requestVars, deleteVars,
                 apiCacheOther, syncVars, arg>>

call_deleteFromCache(key) ==
  /\ ret' = [op |-> "deleteFromCache", key |-> key, result |-> TRUE]
  /\ apiCache' = deleteFromCache(apiCache, key)
  /\ apiExpired' = apiExpired \ {key}
  /\ UNCHANGED <<connVars, caller, dbVars, queue, workerVars, jobStatus, requestVars, deleteVars,
                 apiCacheOther, syncVars, arg>>

call_clearImageCache(imageId) ==
  /\ ret' = [op |-> "clearImageCache", imageId |-> imageId,
             cleared |-> Cardinality({k \in DOMAIN apiCache : k[2] = imageId}),
             result |-> TRUE]
  /\ apiCache' = clearImageCache(apiCache, imageId)
  /\ apiExpired' = {k \in apiExpired : k[2] # imageId}
  /\ UNCHANGED <<connVars, caller, dbVars, queue, workerVars, jobStatus, requestVars, deleteVars,
                 apiCacheOther, syncVars, arg>>

call_getCacheStats ==
  /\ ret' = [op |-> "getCacheStats", keys |-> getCacheStats(apiCache, apiCacheOther)]
  /\ UNCHANGED <<connVars, caller, dbVars, queue, workerVars, jobStatus, requestVars, deleteVars,
                 apiCacheVars, syncVars, arg>>

\* The TTL (stdTTL, CACHE_TTL seconds from the set) of an entry runs out.
\* The entry stays in the store until a get finds it or the periodic check
\* removes it.
ttl_expire(key) ==
  /\ key \in DOMAIN apiCache \ apiExpired
  /\ ret' = [op |-> "expired", key |-> key]
  /\ apiExpired' = apiExpired \cup {key}
  /\ UNCHANGED <<connVars, caller, dbVars, queue, workerVars, jobStatus, requestVars, deleteVars,
                 apiCache, apiCacheOther, syncVars, arg>>

\* The periodic check of NodeCache (every checkperiod seconds) deletes the
\* entries whose TTL has run out.
checkperiod ==
  /\ apiExpired # {}
  /\ ret' = [op |-> "checkperiod", keys |-> apiExpired]
  /\ apiCache' = [k \in DOMAIN apiCache \ apiExpired |-> apiCache[k]]
  /\ apiExpired' = {}
  /\ UNCHANGED <<connVars, caller, dbVars, queue, workerVars, jobStatus, requestVars, deleteVars,
                 apiCacheOther, syncVars, arg>>

\* --------------------------------------------------------- connectRabbitMQ
\* connectRabbitMQ_catch giving up: the error is thrown to the caller.
connectRabbitMQ_catch_throws(c) ==
  [pc |-> "failed", timer |-> 0,
   connection |-> IF c.connection = "none" THEN "none" ELSE "closed",
   channel |-> IF c.channel = "none" THEN "none" ELSE "closed",
   retried |-> c.retried]

\* The catch block: the error is logged and the function waits RetrySeconds
\* before it calls itself again.
connectRabbitMQ_catch(c) ==
  [pc |-> "backoff", timer |-> RetrySeconds,
   connection |-> IF c.connection = "none" THEN "none" ELSE "closed",
   channel |-> IF c.channel = "none" THEN "none" ELSE "closed",
   retried |-> TRUE]

\* connection = await amqp.connect(RABBITMQ_URL)
connectRabbitMQ_connect(p) ==
  /\ conn[p].pc = "connect"
  /\ conn' = [conn EXCEPT ![p] =
       IF broker.up
         THEN [@ EXCEPT !.pc = "createChannel", !.connection = "open",
                        !.channel = "none"]
         ELSE connectRabbitMQ_catch(Connecting)]
  /\ UNCHANGED <<server, caller, dbVars, queue, workerVars, jobStatus, requestVars, deleteVars,
                 apiCacheVars, syncVars, callVars, broker>>

\* channel = await connection.createChannel()
connectRabbitMQ_createChannel(p) ==
  /\ conn[p].pc = "createChannel"
  /\ conn' = [conn EXCEPT ![p] =
       IF @.connection = "open"
         THEN [@ EXCEPT !.pc = "assertQueue", !.channel = "open"]
         ELSE connectRabbitMQ_catch(@)]
  /\ UNCHANGED <<server, caller, dbVars, queue, workerVars, jobStatus, requestVars, deleteVars,
                 apiCacheVars, syncVars, callVars, broker>>

\* await channel.assertQueue(QUEUE_NAME, { durable: true }); the handlers
\* are registered and { connection, channel } is returned.
connectRabbitMQ_assertQueue(p) ==
  /\ conn[p].pc = "assertQueue"
  /\ IF conn[p].channel = "open"
       THEN /\ conn' = [conn EXCEPT ![p].pc = "returned"]
            /\ broker' = [broker EXCEPT !.durableQueue = TRUE]
       ELSE /\ conn' = [conn EXCEPT ![p] = connectRabbitMQ_catch(@)]
            /\ broker' = broker
  /\ UNCHANGED <<server, caller, dbVars, queue, workerVars, jobStatus, requestVars, deleteVars,
                 apiCacheVars, syncVars, callVars>>

\* await new Promise(resolve => setTimeout(resolve, 5000)): a second passes.
connectRabbitMQ_wait(p) ==
  /\ conn[p].pc = "backoff"
  /\ conn[p].timer > 0
  /\ conn' = [conn EXCEPT ![p].timer = @ - 1]
  /\ UNCHANGED <<server, caller, dbVars, queue, workerVars, jobStatus, requestVars, deleteVars,
                 apiCacheVars, syncVars, callVars, broker>>

\* return connectRabbitMQ(): the timer has fired.
connectRabbitMQ_retry(p) ==
  /\ conn[p].pc = "backoff"
  /\ conn[p].timer = 0
  /\ conn' = [conn EXCEPT ![p] = [Connecting EXCEPT !.retried = TRUE]]
  /\ UNCHANGED <<server, caller, dbVars, queue, workerVars, jobStatus, requestVars, deleteVars,
                 apiCacheVars, syncVars, callVars, broker>>

\* The broker stops or the network to it breaks: every connection and its
\* channel are closed.  The durable queue outlives a stop of the broker.
broker_down ==
  /\ broker.up
  /\ broker' = [broker EXCEPT !.up = FALSE]
  /\ conn' = [p \in Processes |->
       [conn[p] EXCEPT !.connection = IF @ = "open" THEN "closed" ELSE @,
                       !.channel = IF @ = "open" THEN "closed" ELSE @]]
  /\ UNCHANGED <<server, caller, dbVars, queue, workerVars, jobStatus, requestVars, deleteVars,
                 apiCacheVars, syncVars, callVars>>

\* The broker is reachable again.
broker_up ==
  /\ ~broker.up
  /\ broker' = [broker EXCEPT !.up = TRUE]
  /\ UNCHANGED <<server, caller, dbVars, queue, workerVars, jobStatus, requestVars, deleteVars,
                 apiCacheVars, syncVars, callVars, conn>>

\* startServer after await connectRabbitMQ(), which has returned or, caught
\* by the try around it, thrown: app.listen(PORT).
startServer_listen ==
  /\ server = "connectRabbitMQ"
  /\ conn["api"].pc \in {"returned", "failed"}
  /\ server' = "listening"
  /\ UNCHANGED <<broker, conn, caller, dbVars, queue, workerVars, jobStatus, requestVars,
                 deleteVars, apiCacheVars, syncVars, callVars>>

\* --------------------------------------------------- functions under test
\* The specs the pure functions are applied to: at most MaxFields of the
\* fields of a transformation spec, each with one of these values.
FieldNames ==
  << "resize", "crop", "rotate", "format", "quality", "filters", "flip",
     "flop", "watermark", "compress" >>

FieldOptions(f) ==
  CASE f = "resize" ->
         { Undefined,
           Get(ResizeSpec, "resize"),
           ObjectOf(<<[k |-> "width", v |-> Num(250)]>>),
           ObjectOf(<<[k |-> "width", v |-> Num(250)],
                      [k |-> "height", v |-> Num(200)],
                      [k |-> "withoutEnlargement", v |-> Bool(TRUE)]>>) }
    [] f = "crop" ->
         { Get(CropSpec, "crop"),
           ObjectOf(<<[k |-> "x", v |-> Num(0)], [k |-> "y", v |-> Num(0)],
                      [k |-> "width", v |-> Num(500)],
                      [k |-> "height", v |-> Num(400)]>>) }
    [] f = "rotate" -> { Num(0), Num(180) }
    [] f = "format" -> { Str("png"), Str("webp") }
    [] f = "quality" -> { Num(90) }
    [] f = "filters" ->
         { ObjectOf(<<[k |-> "grayscale", v |-> Bool(TRUE)],
                      [k |-> "sepia", v |-> Bool(TRUE)],
                      [k |-> "blur", v |-> Num(3)]>>),
           ObjectOf(<<[k |-> "sharpen", v |-> Bool(TRUE)],
                      [k |-> "negate", v |-> Bool(TRUE)]>>),
           ObjectOf(<<[k |-> "normalize", v |-> Bool(TRUE)],
                      [k |-> "gamma", v |-> Num(2)],
                      [k |-> "brightness", v |-> Num(2)],
                      [k |-> "saturation", v |-> Num(2)],
                      [k |-> "hue", v |-> Num(90)]>>) }
    [] f = "flip" -> { Bool(TRUE), Bool(FALSE) }
    [] f = "flop" -> { Bool(TRUE) }
    [] f = "watermark" -> { ObjectOf(<<[k |-> "text", v |-> Str("wm")]>>) }
    [] OTHER -> { Bool(TRUE) }

\* The object literals with at most budget of the fields from the i-th on.
RECURSIVE SpecsFrom(_, _)
SpecsFrom(i, budget) ==
  IF i > Len(FieldNames)
    THEN {<<>>}
    ELSE SpecsFrom(i + 1, budget)
         \cup IF budget = 0
                THEN {}
                ELSE {<<[k |-> FieldNames[i], v |-> o]>> \o rest :
                        o \in FieldOptions(FieldNames[i]),
                        rest \in SpecsFrom(i + 1, budget - 1)}

PureSpecs == {ObjectOf(e) : e \in SpecsFrom(1, MaxFields)}

\* The orders a set of property names can be written in.
Orders(F) ==
  {q \in [1..Cardinality(F) -> F] : \A i, j \in 1..Cardinality(F) : q[i] = q[j] => i = j}

ReverseSeq(q) == [i \in 1..Len(q) |-> q[Len(q) + 1 - i]]

\* The same object, written with its properties in the order keys and the
\* properties of its nested objects in reverse.
Reordered(o, keys) ==
  Obj(keys, [k \in DOMAIN o.val |->
               IF o.val[k].type = "object"
                 THEN Obj(ReverseSeq(o.val[k].keys), o.val[k].val)
                 ELSE o.val[k]])

\* The same object without the properties whose value is undefined.
WithoutUndefined(o) ==
  Obj(SelectSeq(o.keys, LAMBDA k : o.val[k].type # "undefined"),
      [k \in {h \in DOMAIN o.val : o.val[h].type # "undefined"} |-> o.val[k]])

\* generateCacheKey applied to the spec, to its reordering and to the spec
\* without its undefined properties.
call_generateCacheKey ==
  /\ arg # NoCall /\ ret = NoCall
  /\ ret' = [op |-> "generateCacheKey",
             t |-> generateCacheKey(arg.id, arg.t),
             u |-> generateCacheKey(arg.id, arg.u),
             s |-> generateCacheKey(arg.id, WithoutUndefined(arg.t))]
  /\ UNCHANGED <<connVars, caller, dbVars, queue, workerVars, jobStatus, requestVars, deleteVars,
                 apiCacheVars, syncVars, arg>>

\* applyTransformations applied to the spec and to its reordering, the
\* source file being on disk.
call_applyTransformations ==
  /\ arg # NoCall /\ ret = NoCall
  /\ ret' = [op |-> "applyTransformations",
             t |-> [calls |-> applyTransformations_calls(arg.t),
                    out |-> applyTransformations(TRUE, arg.t)],
             u |-> [calls |-> applyTransformations_calls(arg.u),
                    out |-> applyTransformations(TRUE, arg.u)]]
  /\ UNCHANGED <<connVars, caller, dbVars, queue, workerVars, jobStatus, requestVars, deleteVars,
                 apiCacheVars, syncVars, arg>>

\* The pipeline of transformImageSync applied to the spec and to its
\* reordering.
call_transformImageSync ==
  /\ arg # NoCall /\ ret = NoCall
  /\ ret' = [op |-> "transformImageSync",
             t |-> [calls |-> transformImageSync_calls(arg.t),
                    out |-> toFile(transformImageSync_calls(arg.t), 1, SrcDims)],
             u |-> [calls |-> transformImageSync_calls(arg.u),
                    out |-> toFile(transformImageSync_calls(arg.u), 1, SrcDims)]]
  /\ UNCHANGED <<connVars, caller, dbVars, queue, workerVars, jobStatus, requestVars, deleteVars,
                 apiCacheVars, syncVars, arg>>

\* -------------------------------------------------------------------- Next
WorkerStep(w) ==
  \/ processJob_markProcessing(w)
  \/ processJob_apply(w)
  \/ processJob_findByPk(w)
  \/ processJob_update(w)
  \/ processJob_setInCache(w)
  \/ processJob_catch(w)
  \/ consume_ack(w)
  \/ consume_nack(w)

RequestStep(r) ==
  \/ transformImage_check(r)
  \/ transformImage_update(r)
  \/ transformImage_publish(r)

DeleteStep ==
  \/ deleteImage_deleteFile
  \/ deleteImage_destroy

Next ==
  \/ \E r \in Requests, id \in ImageIds, t \in TransformSpecs :
       transformImage_findOne(r, id, t)
  \/ \E r \in Requests : RequestStep(r)
  \/ \E w \in Workers : consume_deliver(w)
  \/ \E w \in Workers : WorkerStep(w)
  \/ \E id \in ImageIds : deleteImage_findOne(id)
  \/ DeleteStep

\* The service while no worker process is signalled.
Spec == Init /\ [][Next]_vars

\* The service with worker processes that exit on a signal and are started
\* again, and with worker caches that earlier jobs may have filled.
NextFull ==
  \/ Next
  \/ \E w \in Workers : worker_exit(w)
  \/ \E w \in Workers : initWorker(w)

SpecFull == InitFull /\ [][NextFull]_vars

\* The service under fair scheduling: the broker dispatches a ready message
\* to a consumer with capacity, and every process that is at an await goes
\* on.  Only this service's own messages are in the queue.
Fairness ==
  /\ \A w \in Workers : WF_vars(consume_deliver(w)) /\ WF_vars(WorkerStep(w))
  /\ \A r \in Requests : WF_vars(RequestStep(r))
  /\ WF_vars(DeleteStep)

InitFair == Init /\ queue = <<>>

FairSpec == InitFair /\ [][Next]_vars /\ Fairness

\* The service at rest: no job, no message, workers with empty caches.
InitQuiet ==
  /\ InitJobs
  /\ queue = <<>>
  /\ cacheOther = [w \in Workers |-> 0]
  /\ InitConnected
  /\ InitCallers

\* The pure functions, each applied to every spec of PureSpecs written in
\* every order of its fields.
InitFn ==
  /\ InitQuiet
  /\ InitApi
  /\ ret = NoCall
  /\ \E id \in ImageIds, t \in PureSpecs :
       \E q \in Orders(DOMAIN t.val) :
         arg = [id |-> id, t |-> t, u |-> Reordered(t, q)]

NextFn ==
  \/ call_generateCacheKey
  \/ call_applyTransformations
  \/ call_transformImageSync

FnSpec == InitFn /\ [][NextFn]_vars

\* The cache of one process under any sequence of calls of config/cache.js
\* and TTL expiries, other keys filling it to any level.
CacheImageIds == {"img1", "img2"}
CacheKeysUsed == {generateCacheKey(id, t) : id \in CacheImageIds, t \in TransformSpecs}

InitCache ==
  /\ InitQuiet
  /\ InitNoCall
  /\ apiCache = EmptyCache
  /\ apiCacheOther \in {0, maxKeys - 2, maxKeys - 1, maxKeys}
  /\ apiExpired = {}
  /\ spc = [s \in SyncRequests |-> "idle"]
  /\ sloc = [s \in SyncRequests |-> NoSyncRequest]

NextCache ==
  \/ \E key \in CacheKeysUsed, value \in 1..MaxPaths : call_setInCache(key, value)
  \/ \E key \in CacheKeysUsed : call_getFromCache(key)
  \/ \E key \in CacheKeysUsed : call_deleteFromCache(key)
  \/ \E id \in CacheImageIds : call_clearImageCache(id)
  \/ call_getCacheStats
  \/ \E key \in CacheKeysUsed : ttl_expire(key)
  \/ checkperiod

CacheSpec == InitCache /\ [][NextCache]_vars

\* The API server serving synchronous transforms and deletions, its cache
\* holding anything earlier requests have left in it.
InitSync ==
  /\ InitQuiet
  /\ InitNoCall
  /\ apiCacheOther \in {0, maxKeys}
  /\ apiCache = EmptyCache
  /\ apiExpired = {}
  /\ spc = [s \in SyncRequests |-> "idle"]
  /\ sloc = [s \in SyncRequests |-> NoSyncRequest]

SyncStep(s) ==
  \/ transformImageSync_check(s)
  \/ transformImageSync_toFile(s)
  \/ transformImageSync_update(s)

NextSync ==
  \/ \E s \in SyncRequests, id \in ImageIds, t \in TransformSpecs :
       transformImageSync_findOne(s, id, t)
  \/ \E s \in SyncRequests : SyncStep(s)
  \/ \E id \in ImageIds : deleteImage_findOne(id)
  \/ DeleteStep

SyncSpec == InitSync /\ [][NextSync]_vars

\* The API server and a worker process side by side: asynchronous requests,
\* synchronous transforms and deletions of the server, the broker and the
\* worker's processJob, each process with its own cache, which earlier
\* requests and jobs may have filled.
InitService ==
  /\ InitJobs
  /\ queue = <<>>
  /\ InitNoCall
  /\ InitConnected
  /\ InitCallers
  /\ apiCache = EmptyCache
  /\ apiCacheOther \in {0, maxKeys}
  /\ apiExpired = {}
  /\ spc = [s \in SyncRequests |-> "idle"]
  /\ sloc = [s \in SyncRequests |-> NoSyncRequest]

NextService ==
  \/ \E id \in ImageIds, t \in TransformSpecs : transformImage_findOne("r1", id, t)
  \/ RequestStep("r1")
  \/ consume_deliver("w1")
  \/ WorkerStep("w1")
  \/ \E id \in ImageIds, t \in TransformSpecs : transformImageSync_findOne("s1", id, t)
  \/ SyncStep("s1")
  \/ \E id \in ImageIds : deleteImage_findOne(id)
  \/ DeleteStep

ServiceSpec == InitService /\ [][NextService]_vars

\* Synchronous transforms of the API server, one after or during the other,
\* whose specs may differ in a nested field only.
NextKeys ==
  \/ \E s \in SyncRequests, id \in ImageIds, t \in NestedSpecs :
       transformImageSync_findOne(s, id, t)
  \/ \E s \in SyncRequests : SyncStep(s)

KeySpec == InitSync /\ [][NextKeys]_vars

\* The API server alone, no worker consuming: asynchronous requests while
\* the connection to the broker may drop; nothing in the server reopens it.
NextPublish ==
  \/ \E r \in Requests, id \in ImageIds, t \in TransformSpecs :
       transformImage_findOne(r, id, t)
  \/ \E r \in Requests : RequestStep(r)
  \/ broker_down

PublishSpec == InitService /\ [][NextPublish]_vars

\* The two transform routes behind validateTransformation, with request
\* bodies that pass the validators and bodies that do not, and the worker
\* that executes what was published.
NextValidate ==
  \/ \E id \in ImageIds, t \in RequestBodies : handleValidation_transform("r1", id, t)
  \/ \E id \in ImageIds, t \in RequestBodies : transformImage_findOne("r1", id, t)
  \/ RequestStep("r1")
  \/ consume_deliver("w1")
  \/ WorkerStep("w1")
  \/ \E id \in ImageIds, t \in RequestBodies : handleValidation_transformSync("s1", id, t)
  \/ \E id \in ImageIds, t \in RequestBodies : transformImageSync_findOne("s1", id, t)
  \/ SyncStep("s1")

ValidateSpec == InitService /\ [][NextValidate]_vars

\* Concurrent synchronous transforms of the API server while a worker
\* processes jobs: the executions that compute one cache key at a time.
NextRace ==
  \/ \E id \in ImageIds, t \in TransformSpecs : transformImage_findOne("r1", id, t)
  \/ RequestStep("r1")
  \/ consume_deliver("w1")
  \/ WorkerStep("w1")
  \/ \E s \in SyncRequests, id \in ImageIds, t \in TransformSpecs :
       transformImageSync_findOne(s, id, t)
  \/ \E s \in SyncRequests : SyncStep(s)

RaceSpec == InitService /\ [][NextRace]_vars

\* The start of the processes: each calls connectRabbitMQ while the broker
\* comes and goes.  A process that is at an await goes on, and a timer that
\* was set fires.
InitConnect ==
  /\ InitJobs
  /\ queue = <<>>
  /\ cacheOther = [w \in Workers |-> 0]
  /\ InitApi
  /\ InitNoCall
  /\ broker \in {[up |-> u, durableQueue |-> FALSE] : u \in BOOLEAN}
  /\ conn = [p \in Processes |-> Connecting]
  /\ server = "connectRabbitMQ"
  /\ InitCallers

ConnectStep(p) ==
  \/ connectRabbitMQ_connect(p)
  \/ connectRabbitMQ_createChannel(p)
  \/ connectRabbitMQ_assertQueue(p)
  \/ connectRabbitMQ_wait(p)
  \/ connectRabbitMQ_retry(p)

NextConnect ==
  \/ \E p \in Processes : ConnectStep(p)
  \/ broker_down
  \/ broker_up

ConnectSpec ==
  InitConnect /\ [][NextConnect]_vars /\ \A p \in Processes : WF_vars(ConnectStep(p))

\* The four handlers that load an image for the caller, serving requests of
\* its owner and of another user.
NextOwner ==
  \/ \E h \in {"r1", "s1", "delete", "status"}, userId \in Users :
       authenticate(h, userId)
  \/ \E id \in ImageIds, t \in TransformSpecs : transformImage_findOne("r1", id, t)
  \/ RequestStep("r1")
  \/ \E id \in ImageIds, t \in TransformSpecs : transformImageSync_findOne("s1", id, t)
  \/ SyncStep("s1")
  \/ \E id \in ImageIds : deleteImage_findOne(id)
  \/ DeleteStep
  \/ \E id \in ImageIds : getTransformationStatus(id)

OwnerSpec == InitService /\ [][NextOwner]_vars

\* The start of the API server and of a worker: startServer awaits
\* connectRabbitMQ and then listens.  The processes and the listener are
\* scheduled fairly; the broker is not.
NextStart ==
  \/ ConnectStep("api")
  \/ ConnectStep("w1")
  \/ startServer_listen
  \/ broker_down
  \/ broker_up

StartSpec ==
  InitConnect /\ [][NextStart]_vars
    /\ WF_vars(ConnectStep("api")) /\ WF_vars(ConnectStep("w1"))
    /\ WF_vars(startServer_listen)

\* ------------------------------------------------------------------ claims
\* A request that has passed the isProcessing check of transformImage and
\* has not answered yet.
Accepting(r) == rpc[r] \in {"update", "publish"}

\* C1: each image has at most one active job: at most one job message of an
\* image is waiting in the queue or held, unsettled, by a worker.
C1_AtMostOneActiveJob ==
  \A id \in ImageIds : ActiveJobs(id) <= 1

\* C2: the check of isProcessing and the write of isProcessing = true are one
\* atomic step: two requests for one image are never both past the check
\* with their answers still to come, so only one of two concurrent requests
\* is accepted.
C2_AtomicCheckAndSet ==
  \A r1, r2 \in Requests :
    (r1 # r2 /\ Accepting(r1) /\ Accepting(r2)) => rloc[r1].id # rloc[r2].id

\* C3: a transformImage that has read isProcessing = true answers 409,
\* publishes nothing and writes nothing to the images table.
C3_RejectsWhileProcessing ==
  [][\A r \in Requests :
       (/\ rpc[r] = "findOne"
        /\ rloc[r].image # <<>>
        /\ rloc[r].image[1].isProcessing
        /\ rpc'[r] # rpc[r])
       => /\ rpc'[r] = "409"
          /\ queue' = queue
          /\ images' = images
          /\ nextJobId' = nextJobId]_vars

\* C3 (witness): a request was answered 409 while a job for the image is
\* active.
C3_Witness ==
  \E r \in Requests, id \in ImageIds :
    /\ rpc[r] = "409"
    /\ id \in DOMAIN images
    /\ images[id].isProcessing
    /\ ActiveJobs(id) = 1

\* Position of a status in pending -> processing -> {completed | failed}.
Rank(status) ==
  CASE status = Null -> 0
    [] status = "pending" -> 1
    [] status = "processing" -> 2
    [] OTHER -> 3

\* C4: the statuses one job writes follow pending -> processing ->
\* (completed | failed): no job goes back, and a job that has written
\* completed or failed writes nothing afterwards.
C4_StatusMonotonic ==
  [][\A j \in JobIds :
       /\ Rank(jobStatus'[j]) >= Rank(jobStatus[j])
       /\ jobStatus[j] \in {"completed", "failed"} => jobStatus'[j] = jobStatus[j]]_vars

\* The message of job j is in the queue or held by a worker.
JobActive(j) ==
  \/ \E i \in 1..Len(queue) : queue[i].jobId = j
  \/ \E w \in Workers : unacked[w] # <<>> /\ unacked[w][1].jobId = j

\* C5: redelivery is bounded: every job message, also one whose pipeline
\* fails on every attempt, eventually leaves the queue for good.
C5_BoundedRedelivery ==
  \A j \in JobIds : <>[](~JobActive(j))

\* The record a handled pipeline failure leaves.
FailureRecorded(id) ==
  /\ id \in DOMAIN images
  /\ images[id].processingStatus = "failed"
  /\ images[id].processingError # Null
  /\ ~images[id].isProcessing

\* C6: once a worker has recorded a failure, the record of the image stays
\* failed, with its error and isProcessing = false, until a new transform
\* request is accepted for the image.
C6_FailureStays ==
  [][\A id \in ImageIds :
       (FailureRecorded(id) /\ id \in DOMAIN images' /\ ~FailureRecorded(id)')
       => \E r \in Requests :
            rpc[r] = "update" /\ rloc[r].id = id /\ rpc'[r] = "publish"]_vars

\* The job state of an image shows an outcome.
Outcome(id) ==
  /\ id \in DOMAIN images
  /\ images[id].processingStatus \in {"completed", "failed"}
  /\ ~images[id].isProcessing

C7_SuccessRecorded ==
  \A w \in Workers :
    (wpc[w] = "ack" /\ wloc[w].image # <<>>) =>
      LET job == unacked[w][1]
          id == job.imageId
          result == wloc[w].result[1]
          key == generateCacheKey(id, job.transformations)
      IN id \in DOMAIN images =>
           /\ images[id].transformations =
                Append(wloc[w].image[1].transformations, HistoryRecord(job, result))
           /\ images[id].processingStatus = "completed"
           /\ ~images[id].isProcessing
           /\ images[id].processingError = Null
           /\ key \in DOMAIN cache[w]
           /\ cache[w][key] = result.path

\* The callback of the consumer has thrown: JSON.parse rejected the payload,
\* or processJob rethrew the error of the pipeline.
Threw(w) == ~unacked[w][1].json \/ wloc[w].error # Null

\* C8: a worker settles each delivery once, when its callback is over: with
\* nack and requeue (the message is back in the queue) if and only if the
\* callback threw, with ack (the message is gone) if and only if it returned;
\* a worker between deliveries holds no unsettled message.
C8_SettledByOutcome ==
  [][\A w \in Workers :
       /\ wpc[w] = "idle" => unacked[w] = <<>>
       /\ (unacked[w] # <<>> /\ unacked'[w] = <<>> /\ wpc'[w] # "down") =>
            /\ wpc[w] \in {"ack", "nack"}
            /\ wpc'[w] = "idle"
            /\ IF Threw(w) THEN queue' = unacked[w] \o queue
                           ELSE /\ queue' = queue
                                /\ \A j \in {unacked[w][1].jobId} : ~JobActive(j)'
       /\ (unacked[w] # <<>> /\ unacked'[w] # <<>>) => unacked'[w] = unacked[w]]_vars

\* C8 (witness): one job was processed and acknowledged, another job failed
\* and its message is back in the queue, and a worker has put back the
\* payload it could not parse.
C8_Witness ==
  /\ \E j \in JobIds : jobStatus[j] = "completed" /\ ~JobActive(j)
  /\ \E i \in 1..Len(queue) :
       queue[i].json /\ jobStatus[queue[i].jobId] = "failed"
  /\ \E i \in 1..Len(queue) : ~queue[i].json
  /\ \A w \in Workers : wpc[w] = "idle"

\* C10: processing is idempotent under redelivery: the history of an image
\* holds at most one record of each job.
C10_JobRecordedOnce ==
  \A id \in DOMAIN images, j \in JobIds :
    Cardinality({i \in 1..Len(images[id].transformations) :
                   images[id].transformations[i].jobId = j}) <= 1

\* C11: generateCacheKey gives a spec and the same spec written with its
\* top-level fields and the fields of its nested objects in another order
\* the same key.
C11_KeyOrderIndependent ==
  ret.op = "generateCacheKey" => ret.t = ret.u

\* C11 (witness): the key was computed for a spec of several fields, one of
\* them an object of several fields, and for a different order of both.
C11_Witness ==
  /\ ret.op = "generateCacheKey"
  /\ Len(arg.t.keys) >= 2
  /\ arg.u.keys # arg.t.keys
  /\ \E k \in DOMAIN arg.t.val :
       /\ arg.t.val[k].type = "object"
       /\ Len(arg.t.val[k].keys) >= 2
       /\ arg.u.val[k].keys # arg.t.val[k].keys
  /\ ret.t = ret.u

\* C12: generateCacheKey gives a spec with a field set to undefined the key
\* of the spec without that field; {resize: undefined} gets the key of {}.
C12_UndefinedOmitted ==
  ret.op = "generateCacheKey" => ret.t = ret.s

\* C12 (witness): the key of {resize: undefined} was computed, and it is
\* the key of {}.
C12_Witness ==
  /\ ret.op = "generateCacheKey"
  /\ arg.t.keys = <<"resize">>
  /\ arg.t.val["resize"] = Undefined
  /\ WithoutUndefined(arg.t).keys = <<>>
  /\ ret.t = ret.s


\* C13: a synchronous transform of an (imageId, spec) pair that begins after
\* an earlier one of the same pair was answered with a file, the image and
\* its source file still there, is a cache hit: it does not run the pipeline
\* and it answers with the output path of the earlier run.
C13_SecondRunHits ==
  [][\A s \in SyncRequests :
       \A first \in sloc[s].after :
         (/\ spc[s] = "findOne"
          /\ sloc[s].id = sloc[first].id
          /\ sloc[s].transformations = sloc[first].transformations
          /\ sloc[s].image # <<>>
          /\ sloc[s].id \in files
          /\ spc'[s] # spc[s])
         => /\ spc'[s] = "hit"
            /\ sloc'[s].path = sloc[first].path]_vars

\* The spec {crop: {x: 0, y: 0, width: 500, height: 400},
\*           resize: {width: 250, height: 200}}, in any order.
CropResizeExample(t) ==
  /\ DOMAIN t.val = {"crop", "resize"}
  /\ \A k \in {"x", "y", "width", "height"} :
       Get(Get(t, "crop"), k) = (IF k = "width" THEN Num(500)
                                 ELSE IF k = "height" THEN Num(400) ELSE Num(0))
  /\ Get(t, "resize").type = "object"
  /\ DOMAIN Get(t, "resize").val = {"width", "height"}
  /\ Get(Get(t, "resize"), "width") = Num(250)
  /\ Get(Get(t, "resize"), "height") = Num(200)

\* C14: for the 1000x800 source and the spec {crop: 500x400 at (0, 0),
\* resize: 250x200} the pipeline, of the worker and of the synchronous
\* path, succeeds and its output is exactly 250x200: the crop is applied
\* before the resize.
C14_CropBeforeResize ==
  (ret.op \in {"applyTransformations", "transformImageSync"} /\ CropResizeExample(arg.t))
  => \A r \in {ret.t, ret.u} :
       /\ r.out.ok
       /\ r.out.dims = [width |-> 250, height |-> 200]

\* The stages of the pipeline, in the order the spec fixes.
StageOrder ==
  << "resize", "crop", "rotate", "flip", "flop", "grayscale", "sepia", "blur",
     "sharpen", "negate", "normalize", "gamma", "brightness", "saturation",
     "hue", "watermark", "encode" >>

\* The field of a spec that asks for a stage is present: a size for resize,
\* a rectangle for crop, an angle for rotate, true for flip and flop, a set
\* filter, a text for watermark.  The encode stage is always there.
Requested(t, stage) ==
  CASE stage = "resize" ->
         Truthy(Get(Get(t, "resize"), "width")) \/ Truthy(Get(Get(t, "resize"), "height"))
    [] stage = "crop" -> Get(t, "crop").type = "object"
    [] stage = "rotate" -> Get(t, "rotate").type = "number"
    [] stage \in {"flip", "flop"} -> Get(t, stage) = Bool(TRUE)
    [] stage = "watermark" -> Truthy(Get(Get(t, "watermark"), "text"))
    [] stage = "encode" -> TRUE
    [] OTHER -> Truthy(Get(Get(t, "filters"), stage))

\* The stages a sequence of calls belongs to, each once.
RECURSIVE StagesOf(_)
StagesOf(calls) ==
  IF calls = <<>> THEN <<>>
  ELSE LET rest == StagesOf(Tail(calls))
       IN IF rest # <<>> /\ rest[1] = calls[1].stage
            THEN rest
            ELSE <<calls[1].stage>> \o rest

\* C15: the stages applyTransformations applies are those of the fixed list
\* resize, crop, rotate, flip, flop, filters (grayscale ... hue), watermark,
\* encode that the spec asks for, in the order of the list, and they are the
\* same for the spec written in another order.
C15_FixedStageOrder ==
  ret.op = "applyTransformations" =>
    /\ StagesOf(ret.t.calls) = SelectSeq(StageOrder, LAMBDA st : Requested(arg.t, st))
    /\ ret.u.calls = ret.t.calls

\* C15 (witness): applyTransformations was applied to a spec that asks for
\* three stages or more, two of them filters, and to another order of it.
C15_Witness ==
  /\ ret.op = "applyTransformations"
  /\ Len(StagesOf(ret.t.calls)) >= 4
  /\ Get(arg.t, "filters").type = "object"
  /\ Len(Get(arg.t, "filters").keys) >= 2
  /\ arg.u.keys # arg.t.keys
  /\ ret.u.calls = ret.t.calls

\* C16: the synchronous path runs the pipeline of the worker: for every
\* spec, the calls transformImageSync makes, with their arguments, are the
\* calls applyTransformations makes.
C16_SamePipeline ==
  ret.op = "transformImageSync" =>
    ret.t.calls = applyTransformations_calls(arg.t)

\* The quality the spec fixes for the encode stage.
ExpectedQuality(t) ==
  IF Get(t, "quality").type = "number" THEN Get(t, "quality")
  ELSE IF Get(t, "compress") = Bool(TRUE) THEN Num(60)
  ELSE Num(80)

\* C17: every pipeline that is executed, by applyTransformations or by the
\* synchronous path, encodes with the explicit quality when there is one,
\* else with 60 when compress is true and 80 when it is not.
C17_EncodeQuality ==
  ret.op \in {"applyTransformations", "transformImageSync"} =>
    LET encode == ret.t.calls[Len(ret.t.calls)]
    IN /\ "quality" \in DOMAIN encode.args
       /\ encode.args.quality = ExpectedQuality(arg.t)

\* The crop rectangle of a spec lies within the source image.
CropWithinSource(t) ==
  LET crop == Get(t, "crop")
  IN /\ Get(crop, "x").n + Get(crop, "width").n <= SrcDims.width
     /\ Get(crop, "y").n + Get(crop, "height").n <= SrcDims.height

\* C18: a pipeline with a crop fails exactly when the crop rectangle exceeds
\* the bounds of the source image, whatever the other fields of the spec.
C18_CropFailsIffOutOfSource ==
  (ret.op = "applyTransformations" /\ Get(arg.t, "crop").type = "object")
  => (ret.t.out.ok <=> CropWithinSource(arg.t))

\* C19: after any sequence of cache operations the cache of a process holds
\* at most maxKeys live entries, and getCacheStats reports no more keys than
\* that.
C19_CacheBounded ==
  /\ CacheKeys(apiCache, apiCacheOther) <= maxKeys
  /\ ret.op = "getCacheStats" => ret.keys <= maxKeys

\* C19 (witness): setInCache calls have filled the cache to maxKeys keys
\* and getCacheStats has reported them.
C19_Witness ==
  /\ ret.op = "getCacheStats"
  /\ ret.keys = maxKeys
  /\ DOMAIN apiCache # {}
  /\ CacheKeys(apiCache, apiCacheOther) = maxKeys

\* C20: setInCache of a new key into a cache that holds maxKeys live entries
\* stores the new entry (evicting another): getFromCache of the key then
\* returns the new value.
C20_FullCacheStoresNewKey ==
  (ret.op = "setInCache" /\ ret.full /\ ret.new)
  => getFromCache(apiCache, apiExpired, ret.key) = ret.value

\* C21: a failure inside the cache layer never fails the caller.  Whether
\* the cache stores the entry or NodeCache.set fails, processJob returns
\* with its result after setInCache, without an error and without another
\* write to the image, and the message is acknowledged; a synchronous
\* transform whose pipeline succeeds goes on to its image.update with its
\* output path and answers 200 with the record of this run appended.
C21_CacheFailureNotPropagated ==
  [][/\ \A w \in Workers :
          (wpc[w] = "setInCache" /\ wpc'[w] \notin {wpc[w], "down"}) =>
             /\ wpc'[w] = "ack"
             /\ wloc'[w] = wloc[w]
             /\ wloc[w].error = Null
             /\ images' = images
     /\ \A s \in SyncRequests :
          /\ (/\ spc[s] = "toFile"
              /\ spc'[s] # spc[s]
              /\ sloc[s].id \in files
              /\ toFile(transformImageSync_calls(sloc[s].transformations), 1, SrcDims).ok)
             => /\ spc'[s] = "update"
                /\ sloc'[s].path = nextOut
                /\ \A p \in {nextOut} : existsSync(p)'
          /\ (spc[s] = "update" /\ spc'[s] # spc[s]) =>
               /\ spc'[s] = "200"
               /\ sloc[s].id \in DOMAIN images =>
                    images'[sloc[s].id].transformations =
                      Append(sloc[s].image[1].transformations,
                             SyncRecord(sloc[s].transformations, sloc[s].path))]_vars

\* C21 (witness): with both caches full, so that setInCache stored nothing,
\* a worker is about to acknowledge a job it has recorded as completed, and
\* a synchronous transform was answered 200.
C21_Witness ==
  /\ \E w \in Workers :
       /\ wpc[w] = "ack"
       /\ wloc[w].image # <<>>
       /\ wloc[w].error = Null
       /\ cacheOther[w] = maxKeys
       /\ generateCacheKey(unacked[w][1].imageId, unacked[w][1].transformations)
            \notin DOMAIN cache[w]
       /\ jobStatus[unacked[w][1].jobId] = "completed"
  /\ \E s \in SyncRequests :
       /\ spc[s] = "200"
       /\ apiCacheOther = maxKeys
       /\ generateCacheKey(sloc[s].id, sloc[s].transformations) \notin DOMAIN apiCache
       /\ sloc[s].path # 0

\* The last call has left the key without a live entry: nothing was ever
\* called, the key was deleted, alone or with the keys of its image, its
\* TTL ran out, the periodic check removed it, or a setInCache of the key,
\* which the cache did not hold, failed.
KeyGone(r, key) ==
  \/ r.op = "none"
  \/ r.op \in {"deleteFromCache", "expired"} /\ r.key = key
  \/ r.op = "clearImageCache" /\ r.imageId = key[2]
  \/ r.op = "checkperiod" /\ key \in r.keys
  \/ r.op = "setInCache" /\ r.key = key /\ r.new /\ ~r.result

\* C22: getFromCache returns a miss for a key that was never set, was
\* deleted or whose TTL has run out, also while the expired entry is still
\* in the store; what it returns otherwise is the value the key was last
\* set to, not expired.
C22_MissWhenAbsentOrExpired ==
  [][ret'.op = "getFromCache" =>
       /\ KeyGone(ret, ret'.key) => ret'.result = 0
       /\ (~ret'.stored \/ ret'.expired) => ret'.result = 0
       /\ ret'.result # 0 =>
            /\ ret'.key \in DOMAIN apiCache \ apiExpired
            /\ ret'.result = apiCache[ret'.key]
       /\ ret'.key \notin apiExpired']_vars

\* C22 (witness): getFromCache was called for a key whose entry was still
\* in the store with its TTL run out, and returned a miss; another entry
\* is live.
C22_Witness ==
  /\ ret.op = "getFromCache"
  /\ ret.stored /\ ret.expired
  /\ ret.result = 0
  /\ ret.key \notin DOMAIN apiCache
  /\ DOMAIN apiCache \ apiExpired # {}

\* C23: clearImageCache(imageId) deletes every entry whose key was made
\* for that image id and leaves every entry of another image as it was,
\* with its value and its TTL; it adds nothing and returns true.
C23_ClearsOneImage ==
  [][ret'.op = "clearImageCache" =>
       /\ ret'.result
       /\ DOMAIN apiCache' \subseteq DOMAIN apiCache
       /\ \A k \in DOMAIN apiCache :
            IF k[2] = ret'.imageId
              THEN k \notin DOMAIN apiCache'
              ELSE /\ k \in DOMAIN apiCache'
                   /\ apiCache'[k] = apiCache[k]
                   /\ k \in apiExpired' <=> k \in apiExpired]_vars

\* C23 (witness): clearImageCache has deleted the entries of two specs of
\* one image, and the cache still holds the entries of two specs of another.
C23_Witness ==
  /\ ret.op = "clearImageCache"
  /\ ret.cleared = 2
  /\ Cardinality(DOMAIN apiCache) = 2
  /\ \A k \in DOMAIN apiCache : k[2] # ret.imageId

\* C24: under any interleaving of synchronous transforms and a worker that
\* compute one cache key, an entry of a cache is absent or the output path of
\* one execution for that key whose output file was written before the entry
\* was set: whenever an entry of the API server's cache changes, a
\* synchronous transform for that key has just written the file it names;
\* whenever an entry of a worker's cache changes, that worker's job for that
\* key has written the file it names; every path a cache holds is a written
\* file (the last writer wins).
C24_EntryIsFinishedOutput ==
  [][/\ \A k \in DOMAIN apiCache' :
          /\ \A p \in {apiCache'[k]} : existsSync(p)'
          /\ (k \notin DOMAIN apiCache \/ apiCache[k] # apiCache'[k]) =>
               \E s \in SyncRequests :
                 /\ spc[s] = "toFile" /\ spc'[s] = "update"
                 /\ generateCacheKey(sloc[s].id, sloc[s].transformations) = k
                 /\ sloc'[s].path = apiCache'[k]
                 /\ ~existsSync(apiCache'[k])
     /\ \A w \in Workers : \A k \in DOMAIN cache'[w] :
          /\ \A p \in {cache'[w][k]} : existsSync(p)'
          /\ (k \notin DOMAIN cache[w] \/ cache[w][k] # cache'[w][k]) =>
               /\ wpc[w] = "setInCache"
               /\ generateCacheKey(unacked[w][1].imageId,
                                   unacked[w][1].transformations) = k
               /\ wloc[w].result[1].path = cache'[w][k]
               /\ existsSync(cache'[w][k])]_vars

\* C24 (witness): two synchronous transforms and a job of a worker have
\* computed the same key, each its own output file; the API server's entry
\* is the file of the synchronous transform that wrote last and the worker's
\* entry is the file of the job.
C24_Witness ==
  \E s1, s2 \in SyncRequests, w \in Workers :
    LET k == generateCacheKey(sloc[s1].id, sloc[s1].transformations)
    IN /\ s1 # s2
       /\ sloc[s1].id # Null /\ sloc[s2].id # Null
       /\ generateCacheKey(sloc[s2].id, sloc[s2].transformations) = k
       /\ sloc[s1].path # 0 /\ sloc[s2].path > sloc[s1].path
       /\ spc[s1] \in {"update", "200"} /\ spc[s2] \in {"update", "200"}
       /\ k \in DOMAIN apiCache /\ apiCache[k] = sloc[s2].path
       /\ k \in DOMAIN cache[w]
       /\ cache[w][k] \notin {sloc[s1].path, sloc[s2].path}

\* C25: a worker holds at most one unacknowledged message: a message is
\* delivered to a worker only when the worker holds none, its callback for
\* the previous one being over and that message acked or nacked.
C25_OneUnackedPerWorker ==
  [][\A w \in Workers :
       /\ Len(unacked[w]) <= 1
       /\ Len(unacked'[w]) <= 1
       /\ (unacked'[w] # <<>> /\ unacked'[w] # unacked[w]) =>
            /\ unacked[w] = <<>>
            /\ wpc[w] = "idle"
            /\ queue # <<>>
            /\ unacked'[w] = <<Head(queue)>>]_vars

\* C25 (witness): every worker holds a message it has not settled, one of
\* them is running the pipeline of its job, and a job message is ready in
\* the queue, delivered to nobody.
C25_Witness ==
  /\ \A w \in Workers : Len(unacked[w]) = 1
  /\ \E w \in Workers : wpc[w] = "apply"
  /\ queue # <<>>
  /\ Head(queue).json

\* C26: connectRabbitMQ never fails: it leaves a failed attempt for a wait
\* of RetrySeconds seconds, after which it tries again, however often; it
\* returns only with an open channel of an open connection on the declared
\* durable queue; and if the broker is reachable from some time on, every
\* process that called it gets its channel.
C26_RetriesUntilConnected ==
  /\ [](\A p \in Processes : conn[p].pc # "failed")
  /\ [][\A p \in Processes :
          /\ (conn[p].pc # "backoff" /\ conn'[p].pc = "backoff") =>
               conn'[p].timer = RetrySeconds
          /\ (conn[p].pc = "backoff" /\ conn'[p].pc # "backoff") =>
               /\ conn[p].timer = 0
               /\ conn'[p].pc = "connect"
          /\ (conn[p].pc # "returned" /\ conn'[p].pc = "returned") =>
               /\ conn'[p].connection = "open"
               /\ conn'[p].channel = "open"
               /\ broker'.up /\ broker'.durableQueue]_vars
  /\ \A p \in Processes : (<>[]broker.up) => <>(conn[p].pc = "returned")

\* C26 (witness): a process whose first attempt failed has, after a retry,
\* returned an open channel on the durable queue, while another process is
\* in the middle of its wait.
C26_Witness ==
  /\ broker.up /\ broker.durableQueue
  /\ \E p, q \in Processes :
       /\ conn[p].pc = "returned"
       /\ conn[p].retried
       /\ conn[p].channel = "open"
       /\ conn[q].pc = "backoff"
       /\ conn[q].timer \in 1..(RetrySeconds - 1)

\* ---------------------------------------------------------------------- C27
\* The specs that have reached the queue (published, delivered or not) and
\* the specs the executors run (processJob's applyTransformations and the
\* pipeline of transformImageSync).
SpecsInQueue ==
  {queue[i].transformations : i \in {j \in DOMAIN queue : queue[j].json}}
    \cup {unacked[w][1].transformations :
            w \in {v \in Workers : unacked[v] # <<>> /\ unacked[v][1].json}}
SpecsInExecutor ==
  {unacked[w][1].transformations : w \in {v \in Workers : wpc[v] = "apply"}}
    \cup {sloc[s].transformations : s \in {q \in SyncRequests : spc[q] = "toFile"}}

\* crop.x >= 0, crop.y >= 0, crop.width > 0 and crop.height > 0.
CropIsRectangle(crop) ==
  /\ Get(crop, "x").type = "number" /\ Get(crop, "x").n >= 0
  /\ Get(crop, "y").type = "number" /\ Get(crop, "y").n >= 0
  /\ Get(crop, "width").type = "number" /\ Get(crop, "width").n > 0
  /\ Get(crop, "height").type = "number" /\ Get(crop, "height").n > 0

\* C27: a request whose spec fails validation is rejected with 400 before
\* anything else happens: the step that answers 400 changes no image
\* record, publishes no job and runs no pipeline, and the requests that go
\* on carry a spec that passed; consequently every spec in the queue or in
\* an executor that has a crop has crop.x >= 0, crop.y >= 0, crop.width > 0
\* and crop.height > 0.
C27_InvalidRejectedFirst ==
  /\ [][((\E r \in Requests : rpc'[r] = "400" /\ rpc[r] # "400")
          \/ (\E s \in SyncRequests : spc'[s] = "400" /\ spc[s] # "400"))
        => UNCHANGED <<images, files, queue, unacked, nextOut, nextJobId,
                       jobStatus, cache, apiCache>>]_vars
  /\ [](\A t \in SpecsInQueue \cup SpecsInExecutor :
          Get(t, "crop").type # "undefined" => CropIsRectangle(Get(t, "crop")))

\* ---------------------------------------------------------------------- C28
\* The step of transformImage after findOne, taken by r without a row or
\* without the source file; the same for transformImageSync.
NotFoundStep(r) ==
  /\ rpc[r] = "findOne"
  /\ rpc'[r] # "findOne"
  /\ rloc[r].image = <<>> \/ rloc[r].id \notin files
NotFoundStepSync(s) ==
  /\ spc[s] = "findOne"
  /\ spc'[s] # "findOne"
  /\ sloc[s].image = <<>> \/ sloc[s].id \notin files

\* No image field is written, no file touched, no job published and no
\* cache entry set.
NothingChanged ==
  UNCHANGED <<images, files, queue, unacked, nextJobId, nextOut, jobStatus,
              cache, cacheOther, apiCache, apiCacheOther, apiExpired>>

\* C28 as stated: when the image record does not exist for the caller or
\* its source file is missing on disk, transformImage and transformImageSync
\* answer 404 and change nothing.
C28_NotFoundChangesNothing ==
  [][/\ \A r \in Requests : NotFoundStep(r) => rpc'[r] = "404" /\ NothingChanged
     /\ \A s \in SyncRequests :
          NotFoundStepSync(s) => spc'[s] = "404" /\ NothingChanged]_vars

\* C28, amended: transformImageSync answers 404; transformImage answers 404
\* unless the row it loaded is marked isProcessing, which it tests before
\* the source file and answers with 409; in each case nothing is changed.
C28_NotFoundOrConflictChangesNothing ==
  [][/\ \A r \in Requests :
          NotFoundStep(r) =>
            /\ rpc'[r] = IF rloc[r].image # <<>> /\ rloc[r].image[1].isProcessing
                           THEN "409" ELSE "404"
            /\ NothingChanged
     /\ \A s \in SyncRequests :
          NotFoundStepSync(s) => spc'[s] = "404" /\ NothingChanged]_vars

\* C28 witness: both handlers have answered 404 for an image whose row they
\* had loaded, so for its missing source file.
C28_Witness ==
  /\ spc["s1"] = "404"
  /\ sloc["s1"].image # <<>>
  /\ rpc["r1"] = "404"
  /\ ImageIds \subseteq DOMAIN images

\* ---------------------------------------------------------------------- C29
\* The specs an output path was computed from: the spec of the synchronous
\* transform that wrote it, and of the record that names it.
ComputedFrom(path) ==
  {sloc[s].transformations :
     s \in {q \in SyncRequests : spc[q] \in {"update", "200"} /\ sloc[q].path = path}}
    \cup UNION {{images[id].transformations[i].transformations :
                   i \in {j \in DOMAIN images[id].transformations :
                            images[id].transformations[j].output.path = path}} :
                id \in DOMAIN images}

\* C29: the cache key separates different specs: two synchronous transforms
\* of one image whose specs differ in the value of any field, nested fields
\* included, have different keys, and the output a cache hit returns was
\* computed from a spec equal to the requested one.
C29_KeySeparatesSpecs ==
  /\ \A s, q \in SyncRequests :
       /\ sloc[s].id # Null /\ sloc[s].id = sloc[q].id
       /\ sloc[s].transformations # sloc[q].transformations
       => generateCacheKey(sloc[s].id, sloc[s].transformations)
            # generateCacheKey(sloc[q].id, sloc[q].transformations)
  /\ \A s \in SyncRequests :
       spc[s] = "hit" => ComputedFrom(sloc[s].path) = {sloc[s].transformations}

\* ---------------------------------------------------------------------- C30
\* The workers that completed a job for the pair of request s and cached
\* its output path.
CompletedFor(s) ==
  {w \in Workers :
     generateCacheKey(sloc[s].id, sloc[s].transformations) \in DOMAIN cache[w]}

\* C30: after a worker process has completed a job for (imageId, spec) and
\* cached its output, a following synchronous transform of the same pair
\* that finds the image and its file is a cache hit on the worker's output
\* path.
C30_WorkerOutputIsHit ==
  [][\A s \in SyncRequests :
       /\ spc[s] = "findOne"
       /\ spc'[s] \notin {"findOne", "404"}
       /\ CompletedFor(s) # {}
       => /\ spc'[s] = "hit"
          /\ \E w \in CompletedFor(s) :
               sloc'[s].path =
                 cache[w][generateCacheKey(sloc[s].id, sloc[s].transformations)]]_vars

\* ---------------------------------------------------------------------- C31
\* C31: the isProcessing flag is never left stuck: an image with
\* isProcessing = true has a job message in the queue or held by a worker,
\* or the request that set the flag is about to publish it; in particular
\* the flag does not stay true when publishToQueue throws.
C31_FlagNeverStuck ==
  \A id \in DOMAIN images :
    images[id].isProcessing =>
      \/ ActiveJobs(id) >= 1
      \/ \E r \in Requests : rpc[r] = "publish" /\ rloc[r].id = id

\* ---------------------------------------------------------------------- C32
\* C32: the two status fields of an image agree in every reachable state:
\* isProcessing is true if and only if processingStatus is pending or
\* processing.
C32_StatusFieldsAgree ==
  \A id \in DOMAIN images :
    images[id].isProcessing
      <=> images[id].processingStatus \in {"pending", "processing"}

\* ---------------------------------------------------------------------- C33
\* The output paths whose transformation has completed: written by toFile,
\* and the worker or synchronous transform that wrote them is past its
\* image.update.  Every path belongs to the one image of ImageIds.
CompletedOutputs ==
  {p \in 1..(nextOut - 1) :
     /\ \A w \in Workers :
          wpc[w] \in {"findByPk", "update"} => wloc[w].result[1].path # p
     /\ \A s \in SyncRequests : spc[s] = "update" => sloc[s].path # p}

\* C33: no transformation-history record is lost: under any interleaving of
\* synchronous transforms and worker completions for one image, the length
\* of its history equals the number of transformations that completed
\* successfully for it.
C33_NoHistoryRecordLost ==
  \A id \in ImageIds :
    id \in DOMAIN images =>
      Len(images[id].transformations) = Cardinality(CompletedOutputs)

\* ---------------------------------------------------------------------- C34
\* The cache keys of an image in the cache of the API server and in the
\* caches of the worker processes.
CachedKeysOf(id) ==
  {k \in DOMAIN apiCache \cup UNION {DOMAIN cache[w] : w \in Workers} : k[2] = id}

\* C34: once deleteImage has completed for an image (its row is destroyed),
\* no cache entry of that image exists in any later state, whatever worker
\* or synchronous transform was running for the image.
C34_NoEntryAfterDelete ==
  \A id \in ImageIds : id \notin DOMAIN images => CachedKeysOf(id) = {}

\* ---------------------------------------------------------------------- C35
\* C35: if the broker is unreachable when the API server starts, startServer
\* still reaches app.listen: the HTTP listener eventually starts, even if
\* the broker never becomes reachable.
C35_ListensWithoutBroker ==
  ~broker.up => <>(server = "listening")

\* ---------------------------------------------------------------------- C36
\* A step of a handler that serves a user who does not own the images,
\* taken after its findOne.
StrangerStep(r) ==
  rpc[r] = "findOne" /\ rpc'[r] # "findOne" /\ caller[r] # OwnerId
StrangerStepSync(s) ==
  spc[s] = "findOne" /\ spc'[s] # "findOne" /\ caller[s] # OwnerId

\* C36: every job message in the queue was requested by the owner of its
\* image: transformImage, transformImageSync, deleteImage and
\* getTransformationStatus go on only with an image whose userId is the
\* caller's, and answer 404 without any state change for another user's
\* image.
C36_OwnerOnly ==
  /\ [](\A i \in DOMAIN queue : queue[i].json => queue[i].userId = OwnerId)
  /\ [](\A r \in Requests : rloc[r].image # <<>> => caller[r] = OwnerId)
  /\ [](\A s \in SyncRequests : sloc[s].image # <<>> => caller[s] = OwnerId)
  /\ [](dpc # "idle" => caller["delete"] = OwnerId)
  /\ [][/\ \A r \in Requests :
            StrangerStep(r) => rpc'[r] = "404" /\ NothingChanged
        /\ \A s \in SyncRequests :
            StrangerStepSync(s) => spc'[s] = "404" /\ NothingChanged
        /\ (ret' # ret /\ caller["status"] # OwnerId)
            => ret'.status = 404 /\ NothingChanged]_vars

\* C36 witness: the owner's job is in the queue while transformImage,
\* transformImageSync and getTransformationStatus have answered another
\* user with 404 and deleteImage serves that user without having begun.
C36_Witness ==
  /\ queue # <<>>
  /\ rpc["r1"] = "404" /\ caller["r1"] # OwnerId
  /\ spc["s1"] = "404" /\ caller["s1"] # OwnerId
  /\ ret = [op |-> "getTransformationStatus", status |-> 404]
  /\ caller["status"] # OwnerId
  /\ caller["delete"] # OwnerId /\ dpc = "idle"
  /\ ImageIds \subseteq DOMAIN images

\* ---------------------------------------------------------------------- C37
\* The job state of the rows: isProcessing, processingStatus and
\* processingError.
JobState ==
  [id \in DOMAIN images |->
     <<images[id].isProcessing, images[id].processingStatus,
       images[id].processingError>>]

\* C37: the synchronous transform leaves the job state of the image
\* unchanged: no step of transformImageSync, whether it ends in a cache hit,
\* a success or a failure, changes isProcessing, processingStatus or
\* processingError, and its checks let it go on to the cache lookup when
\* the row and the file are there, isProcessing = true or not.
C37_SyncLeavesJobState ==
  [][\A s \in SyncRequests :
       spc'[s] # spc[s] =>
         /\ JobState' = JobState
         /\ (spc[s] = "findOne" /\ sloc[s].image # <<>> /\ sloc[s].id \in files)
              => spc'[s] \in {"hit", "toFile"}]_vars

\* C37 witness: a job of the image is being processed (isProcessing = true,
\* processingStatus = processing) in a row that holds the record of a
\* synchronous transform answered 200, and another synchronous transform
\* was answered from the cache.
C37_Witness ==
  /\ spc["s1"] = "200"
  /\ spc["s2"] = "hit"
  /\ \E id \in DOMAIN images :
       /\ images[id].isProcessing
       /\ images[id].processingStatus = "processing"
       /\ \E i \in DOMAIN images[id].transformations :
            images[id].transformations[i] =
              SyncRecord(sloc["s1"].transformations, sloc["s1"].path)

=============================================================================
